---- MODULE Spec2Model ----
(***************************************************************************)
(* Real-time direct-message delivery of the chat project: the WebSocket    *)
(* consumer (apps/chat/consumers.py), the token middleware, the Redis      *)
(* message service (apps/chat/services.py) and the Conversation model      *)
(* (apps/chat/models.py).                                                  *)
(***************************************************************************)
EXTENDS Integers, Sequences, FiniteSets, TLC

\* ------------------------------------------------------------------ bounds
NumUsers == 3
MaxConns == 2
MaxMsgs == 2
MaxRecv == 1
MaxRejected == 1
\* messages stored, frames counted and connections rejected in one run, together
MaxLoad == 2
MaxCalls == 3
\* times the disconnect handler runs for one connection
MaxDisconnects == 2
\* single seconds that pass in a row
MaxTick == 3
\* the largest limit and offset get_chat_messages is called with
MaxLimit == 2
MaxOffset == 1
\* the get_messages_view calls that are between their read and their update
MaxReading == 1

Users == 1..NumUsers
Conns == 1..MaxConns
MsgIds == 1..MaxMsgs
Calls == 1..MaxCalls
\* one conversation id per unordered pair of users, and one to spare
ConvIds == 1..(((NumUsers * (NumUsers - 1)) \div 2) + 1)

\* ------------------------------------------------------ values and inputs
\* AnonymousUser(): the scope user of an unauthenticated connection
Anonymous == 0
\* Python None / a missing JSON field
NoneVal == 0
\* a conversation_id string that is not the text of a UUID
BadUuid == -1
\* the token key of user u in the Token table, the absent token and a key
\* that is in no row of the table
TokenKey(u) == 10 + u
NoToken == 0
BadToken == 10
TokenKeys == {NoToken, BadToken} \cup {TokenKey(u) : u \in Users}
Contents == {"hi"}
ContentInputs == {""} \cup Contents

VARIABLES
    connState,   \* c -> "connecting" | "open" | "rejected" | "closed" | "failed"
    connUserId,  \* c -> self.user_id, the id of the URL route
    connUser,    \* c -> self.user, the scope user
    groups,      \* channel layer: group name -> set of channels
    queue,       \* channel layer: channel -> events not yet dispatched
    frames,      \* c -> frames sent to the client, in order
    convs,       \* table conversations
    metadata,    \* table messages
    payloads,    \* Redis keys message:<id>
    index,       \* Redis sorted sets conversation:<id>:messages
    now,         \* the clock datetime.utcnow() reads
    nRecv,       \* number of inbound frames answered by an error or a typing event
    published,   \* history: the group_send calls made
    usedIds,     \* history: the ids uuid4() has returned to store_message
    sent,        \* history: c -> the ids of the messages c has stored, in order
    dpc,         \* k -> position of a get_or_create_conversation call
    dcall,       \* history: k -> the (user1, user2) it was called with
    dargs,       \* k -> its (user1, user2) after the ordering
    dres,        \* k -> (conversation id, created) it returned
    offlineSent, \* history: c -> the number of user_offline events its disconnect sent
    expireAt,    \* Redis: message id -> the time its key message:<id> expires (0: no key)
    sres,        \* what the last call of the message service returned
    puts,        \* history: message id -> the direct store_message call that made it
    deleting,    \* message id -> the conversation a delete_message call that has deleted
                 \* the key is about to ZREM the id from (0: no such call)
    loaded,      \* the Message instances delete_message_view calls have loaded and not
                 \* yet saved
    reading      \* the get_messages_view calls that have read their page and have not
                 \* yet run the update of is_read

gwVars == <<connState, connUserId, connUser, groups, queue, frames,
            nRecv, published, usedIds, sent, offlineSent>>
storeVars == <<payloads, index, now, expireAt, sres, puts, deleting>>
dbVars == <<convs, metadata, loaded, reading>>
dirVars == <<dpc, dcall, dargs, dres>>
histIds == <<usedIds, sent>>
vars == <<gwVars, storeVars, dbVars, dirVars>>

\* ------------------------------------------------------- channel layer
UserGroupName(user_id) == <<"user", user_id>>
OnlineUsers == <<"online_users", 0>>
GroupNames == {UserGroupName(u) : u \in Users} \cup {OnlineUsers}

group_add(g, group, channel) == [g EXCEPT ![group] = @ \cup {channel}]
\* (mutant) the channel stays in the group
GroupDiscardNoop(g, group, channel) == g
group_discard(g, group, channel) == [g EXCEPT ![group] = @ \ {channel}]
\* (mutant) the event is put on the queue of every channel
GroupSendAll(q, g, group, event) == [c \in Conns |-> Append(q[c], event)]
\* group_send: the event is put on the queue of every channel of the group
group_send(q, g, group, event) ==
    [c \in Conns |-> IF c \in g[group] THEN Append(q[c], event) ELSE q[c]]
PublishRec(c, group, event) == [by |-> c, group |-> group, event |-> event]

\* ------------------------------------------------------- middleware
TokenTable == [k \in {TokenKey(u) : u \in Users} |-> k - 10]
get_user_from_token(token_key) ==
    IF token_key = NoToken THEN Anonymous
    ELSE IF token_key \in DOMAIN TokenTable THEN TokenTable[token_key]
    ELSE Anonymous

\* ------------------------------------------------------- events and frames
UserOnlineEvent(user_id) ==
    [type |-> "user_online", user_id |-> user_id, user_data |-> [id |-> user_id]]
UserOfflineEvent(user_id) == [type |-> "user_offline", user_id |-> user_id]
NewMessageEvent(conversation_id, message_data) ==
    [type |-> "new_message", conversation_id |-> conversation_id,
     message |-> message_data]
UserTypingEvent(conversation_id, user_id) ==
    [type |-> "user_typing", conversation_id |-> conversation_id,
     user_id |-> user_id, user_name |-> user_id]
UserStopTypingEvent(conversation_id, user_id) ==
    [type |-> "user_stop_typing", conversation_id |-> conversation_id,
     user_id |-> user_id]
ErrorFrame(text) == [error |-> text]

\* the frame each event handler of the consumer sends for an event
HandlerFrame(event) ==
    CASE event.type = "new_message" ->
           [type |-> "new_message", conversation_id |-> event.conversation_id,
            message |-> event.message]
      [] event.type = "user_typing" ->
           [type |-> "user_typing", conversation_id |-> event.conversation_id,
            user_id |-> event.user_id, user_name |-> event.user_name]
      [] event.type = "user_stop_typing" ->
           [type |-> "user_stop_typing", conversation_id |-> event.conversation_id,
            user_id |-> event.user_id]
      [] event.type = "user_online" ->
           [type |-> "user_online", user_id |-> event.user_id,
            user_data |-> event.user_data]
      [] event.type = "user_offline" ->
           [type |-> "user_offline", user_id |-> event.user_id]

\* ------------------------------------------------------- payload store
ZAdd(zset, member, score) ==
    {e \in zset : e[1] # member} \cup {<<member, score>>}
\* (mutant) the member stays in the sorted set
ZRemNoop(zset, member) == zset
ZRem(zset, member) == {e \in zset : e[1] # member}

\* the members of a sorted set, highest score first; equal scores are ordered
\* by member, highest first
RECURSIVE RevSorted(_)
RevSorted(zset) ==
    IF zset = {} THEN <<>>
    ELSE LET top == CHOOSE e \in zset : \A f \in zset :
                       \/ f[2] < e[2]
                       \/ (f[2] = e[2] /\ f[1] <= e[1])
         IN <<top[1]>> \o RevSorted(zset \ {top})

\* Redis range indices: zero-based, inclusive, negative ones count from the end
ZRevRange(zset, start, stop) ==
    LET all == RevSorted(zset)
        n == Len(all)
        lo0 == IF start < 0 THEN n + start ELSE start
        lo == IF lo0 < 0 THEN 0 ELSE lo0
        hi0 == IF stop < 0 THEN n + stop ELSE stop
        hi == IF hi0 >= n THEN n - 1 ELSE hi0
    IN IF lo > hi \/ lo >= n THEN <<>> ELSE SubSeq(all, lo + 1, hi + 1)

MessageData(message_id, conversation_id, sender_id, receiver_id, content, timestamp) ==
    [id |-> message_id, conversation_id |-> conversation_id, sender_id |-> sender_id,
     receiver_id |-> receiver_id, content |-> content, timestamp |-> timestamp]

\* self.message_ttl, 30 days in seconds
message_ttl == 86400 * 30

\* json.dumps of the message dict: the text of its members, in the order of the dict
json_dumps(data) ==
    <<<<"id", data.id>>, <<"conversation_id", data.conversation_id>>,
      <<"sender_id", data.sender_id>>, <<"receiver_id", data.receiver_id>>,
      <<"content", data.content>>, <<"timestamp", data.timestamp>>>>
\* json.loads: the dict of the members of the text
Member(text, key) == (CHOOSE i \in 1..Len(text) : text[i][1] = key)
json_loads(text) ==
    [id |-> text[Member(text, "id")][2],
     conversation_id |-> text[Member(text, "conversation_id")][2],
     sender_id |-> text[Member(text, "sender_id")][2],
     receiver_id |-> text[Member(text, "receiver_id")][2],
     content |-> text[Member(text, "content")][2],
     timestamp |-> text[Member(text, "timestamp")][2]]

\* the keys message:<id> Redis still holds at time t: a key is gone once its time to
\* live has elapsed
AtTime(p, e, t) == [id \in {i \in DOMAIN p : e[i] > t} |-> p[id]]

\* (mutant) the key is given a time to live of 31 days
StoreExpiryLonger(e, message_id, t) == [e EXCEPT ![message_id] = t + 86400 * 31]
\* (mutant) the key is given a time to live of one day
StoreExpiryOneDay(e, message_id, t) == [e EXCEPT ![message_id] = t + 86400]

\* store_message: SETEX of the payload, then ZADD to the index of the conversation
\* with the time read after the SETEX as score
StorePayload(p, message_id, conversation_id, sender_id, receiver_id, content, t) ==
    (message_id :> json_dumps(MessageData(message_id, conversation_id, sender_id,
                                          receiver_id, content, t))) @@ p
\* the time to live SETEX gives the key
StoreExpiry(e, message_id, t) == [e EXCEPT ![message_id] = t + message_ttl]
\* (mutant) every message is indexed with the same score
StoreIndexNoTime(ix, message_id, conversation_id, t) ==
    [ix EXCEPT ![conversation_id] = ZAdd(@, message_id, 0)]
StoreIndex(ix, message_id, conversation_id, t) ==
    [ix EXCEPT ![conversation_id] = ZAdd(@, message_id, t + 1)]

\* get_chat_messages(conversation_id, limit=50, offset=0)
DefaultLimit == 50

get_message(p, message_id) ==
    IF message_id \in DOMAIN p THEN json_loads(p[message_id]) ELSE NoneVal

\* (mutant) the page holds only the messages that have a Message row
GetChatMessagesOfRows(p, ix, conversation_id, limit, offset) ==
    LET message_ids == IF conversation_id \in DOMAIN ix
                       THEN ZRevRange(ix[conversation_id], offset, offset + limit - 1)
                       ELSE <<>>
        live == SelectSeq(message_ids,
                          LAMBDA m : /\ m \in DOMAIN p
                                     /\ \E row \in metadata : row.message_id = m)
    IN [i \in 1..Len(live) |-> get_message(p, live[i])]

get_chat_messages(p, ix, conversation_id, limit, offset) ==
    LET message_ids == IF conversation_id \in DOMAIN ix
                       THEN ZRevRange(ix[conversation_id], offset, offset + limit - 1)
                       ELSE <<>>
        live == SelectSeq(message_ids, LAMBDA m : m \in DOMAIN p)
    IN [i \in 1..Len(live) |-> get_message(p, live[i])]

\* store_message, called by itself
StoreMessage(conversation_id, sender_id, receiver_id, content, message_id) ==
    /\ message_id \notin usedIds
    /\ now + 2 <= message_ttl + 2 * MaxTick
    /\ payloads' = AtTime(StorePayload(payloads, message_id, conversation_id, sender_id,
                                       receiver_id, content, now),
                          StoreExpiry(expireAt, message_id, now), now + 2)
    /\ expireAt' = StoreExpiry(expireAt, message_id, now)
    /\ index' = StoreIndex(index, message_id, conversation_id, now)
    /\ now' = now + 2
    /\ sres' = [op |-> "store_message", id |-> message_id, result |-> <<message_id>>]
    /\ puts' = [puts EXCEPT ![message_id] =
                  [conversation_id |-> conversation_id, sender_id |-> sender_id,
                   receiver_id |-> receiver_id, content |-> content, at |-> now,
                   deleted |-> FALSE]]
    /\ usedIds' = usedIds \cup {message_id}
    /\ UNCHANGED <<connState, connUserId, connUser, groups, queue, frames, nRecv,
                   published, sent, offlineSent, deleting, dbVars, dirVars>>

\* get_message, called by itself: the dict, or None
GetMessage(message_id) ==
    /\ sres' = [op |-> "get_message", id |-> message_id,
                result |-> IF message_id \in DOMAIN payloads
                           THEN <<get_message(payloads, message_id)>> ELSE <<>>]
    /\ UNCHANGED <<payloads, index, now, expireAt, puts, deleting, gwVars, dbVars,
                   dirVars>>

\* (mutant) delete_message that takes the id out of the indexes when the payload is
\* already gone
DeleteMessageCleansIndex(message_id) ==
    /\ IF message_id \notin DOMAIN payloads
       THEN /\ sres' = [op |-> "delete_message", id |-> message_id, result |-> <<FALSE>>]
            /\ index' = [k \in DOMAIN index |-> ZRem(index[k], message_id)]
            /\ UNCHANGED <<payloads, expireAt, puts>>
       ELSE LET message_data == get_message(payloads, message_id)
            IN /\ payloads' = [id \in DOMAIN payloads \ {message_id} |-> payloads[id]]
               /\ expireAt' = [expireAt EXCEPT ![message_id] = 0]
               /\ index' = [index EXCEPT ![message_data.conversation_id] =
                                            ZRem(@, message_id)]
               /\ puts' = [puts EXCEPT ![message_id].deleted = TRUE]
               /\ sres' = [op |-> "delete_message", id |-> message_id,
                           result |-> <<TRUE>>]
    /\ UNCHANGED <<now, deleting, gwVars, dbVars, dirVars>>

\* delete_message: False when get_message finds nothing; otherwise DEL of the key and
\* ZREM from the index of the conversation the payload names
DeleteMessage(message_id) ==
    /\ IF message_id \notin DOMAIN payloads
       THEN /\ sres' = [op |-> "delete_message", id |-> message_id, result |-> <<FALSE>>]
            /\ UNCHANGED <<payloads, index, expireAt, puts>>
       ELSE LET message_data == get_message(payloads, message_id)
            IN /\ payloads' = [id \in DOMAIN payloads \ {message_id} |-> payloads[id]]
               /\ expireAt' = [expireAt EXCEPT ![message_id] = 0]
               /\ index' = [index EXCEPT ![message_data.conversation_id] =
                                            ZRem(@, message_id)]
               /\ puts' = [puts EXCEPT ![message_id].deleted = TRUE]
               /\ sres' = [op |-> "delete_message", id |-> message_id,
                           result |-> <<TRUE>>]
    /\ UNCHANGED <<now, deleting, gwVars, dbVars, dirVars>>

\* time passes: Redis drops the keys whose time to live has elapsed
Elapse(d) ==
    /\ now + d <= message_ttl + 2 * MaxTick
    /\ d = 1 => (now % message_ttl) < MaxTick
    /\ now' = now + d
    /\ payloads' = AtTime(payloads, expireAt, now + d)
    /\ UNCHANGED <<index, expireAt, sres, puts, deleting, gwVars, dbVars, dirVars>>

\* delete_message called while other calls of the service run: get_message and the
\* DEL of the key; False when there is no payload
DeleteKey(message_id) ==
    /\ deleting[message_id] = NoneVal
    /\ IF message_id \notin DOMAIN payloads
       THEN /\ sres' = [op |-> "delete_message", id |-> message_id, result |-> <<FALSE>>]
            /\ UNCHANGED <<payloads, expireAt, deleting>>
       ELSE LET message_data == get_message(payloads, message_id)
            IN /\ payloads' = [id \in DOMAIN payloads \ {message_id} |-> payloads[id]]
               /\ expireAt' = [expireAt EXCEPT ![message_id] = 0]
               /\ deleting' = [deleting EXCEPT ![message_id] =
                                                  message_data.conversation_id]
               /\ UNCHANGED sres
    /\ UNCHANGED <<index, now, puts, gwVars, dbVars, dirVars>>

\* the rest of that delete_message call: ZREM from the index, and True
DeleteIndexEntry(message_id) ==
    /\ deleting[message_id] # NoneVal
    /\ index' = [index EXCEPT ![deleting[message_id]] = ZRem(@, message_id)]
    /\ deleting' = [deleting EXCEPT ![message_id] = NoneVal]
    /\ puts' = [puts EXCEPT ![message_id].deleted = TRUE]
    /\ sres' = [op |-> "delete_message", id |-> message_id, result |-> <<TRUE>>]
    /\ UNCHANGED <<payloads, expireAt, now, gwVars, dbVars, dirVars>>

\* get_chat_messages, called by itself
GetChatMessages(conversation_id, limit, offset) ==
    /\ sres' = [op |-> "get_chat_messages", id |-> conversation_id, limit |-> limit,
                offset |-> offset,
                result |-> get_chat_messages(payloads, index, conversation_id,
                                             limit, offset)]
    /\ UNCHANGED <<payloads, index, now, expireAt, puts, deleting, gwVars, dbVars,
                   dirVars>>

\* ------------------------------------------------------- conversations
ConvRows(conversation_id) == {r \in convs : r.id = conversation_id}
\* (mutant) every user passes for a participant
AnyUserInConversation(conversation, user) == TRUE

is_user_in_conversation(conversation, user) ==
    conversation.user1 = user \/ conversation.user2 = user
\* (mutant) the user itself is returned
GetOtherUserSelf(conversation, user) == user
get_other_user(conversation, user) ==
    IF conversation.user1 = user THEN conversation.user2 ELSE conversation.user1
\* (mutant) the conversation is not saved
TouchConversationNoop(cs, conversation, t) == cs
\* conversation.save(): auto_now sets updated_at
TouchConversation(cs, conversation, t) ==
    {IF r.id = conversation.id THEN [r EXCEPT !.updated_at = t] ELSE r : r \in cs}
\* (mutant) the row names the receiver as sender and the sender as receiver
MessageRowSwapped(conversation, sender, receiver, message_id, t) ==
    [conversation |-> conversation.id, sender |-> receiver, receiver |-> sender,
     message_id |-> message_id, created_at |-> t, is_deleted |-> FALSE,
     is_read |-> FALSE]
MessageRow(conversation, sender, receiver, message_id, t) ==
    [conversation |-> conversation.id, sender |-> sender, receiver |-> receiver,
     message_id |-> message_id, created_at |-> t, is_deleted |-> FALSE,
     is_read |-> FALSE]

\* ------------------------------------------------------- ChatConsumer
\* the connections connect has closed so far
NumRejected == Cardinality({c \in Conns : connState[c] \in {"rejected", "failed"}})

Load == Cardinality(usedIds) + nRecv + NumRejected

\* (mutant) connect without the comparison of the route's id with the user's
AcceptedAnyId(user, user_id) == user # Anonymous

\* the two checks of connect: the scope user is a user, and the id of the route is
\* str(user.id)
Accepted(user, user_id) == user # Anonymous /\ user = user_id

\* connect: close() for an anonymous scope user or another user's id; otherwise join
\* the user group, accept, and send user_online to the group online_users.
\* Connections are numbered in the order they connect
Connect(c, user_id, token_key) ==
    /\ connState[c] = "connecting"
    /\ \A d \in Conns : d < c => connState[d] # "connecting"
    /\ LET user == get_user_from_token(token_key)
           accepted == Accepted(user, user_id)
           joined == group_add(groups, UserGroupName(user_id), c)
           event == UserOnlineEvent(user_id)
       IN /\ accepted \/ (NumRejected < MaxRejected /\ Load < MaxLoad)
          /\ connUserId' = [connUserId EXCEPT ![c] = user_id]
          /\ connUser' = [connUser EXCEPT ![c] = user]
          /\ IF accepted
             THEN /\ connState' = [connState EXCEPT ![c] = "open"]
                  /\ groups' = joined
                  /\ queue' = group_send(queue, joined, OnlineUsers, event)
                  /\ published' = published \cup
                                    {PublishRec(c, OnlineUsers, event)}
             ELSE /\ connState' = [connState EXCEPT ![c] = "rejected"]
                  /\ UNCHANGED <<groups, queue, published>>
    /\ UNCHANGED <<frames, nRecv, histIds, storeVars, dbVars, dirVars, offlineSent>>

\* (mutant) disconnect takes back what the connection has stored
DisconnectOpenRollback(c) ==
    /\ connState[c] = "open"
    /\ LET left == group_discard(groups, UserGroupName(connUserId[c]), c)
           event == UserOfflineEvent(connUserId[c])
           mine == {sent[c][i] : i \in 1..Len(sent[c])}
       IN /\ groups' = left
          /\ queue' = [group_send(queue, left, OnlineUsers, event) EXCEPT ![c] = <<>>]
          /\ published' = published \cup {PublishRec(c, OnlineUsers, event)}
          /\ payloads' = [id \in DOMAIN payloads \ mine |-> payloads[id]]
          /\ metadata' = {r \in metadata : r.message_id \notin mine}
    /\ connState' = [connState EXCEPT ![c] = "closed"]
    /\ frames' = [frames EXCEPT ![c] = <<>>]
    /\ offlineSent' = [offlineSent EXCEPT ![c] = @ + 1]
    /\ UNCHANGED <<connUserId, connUser, nRecv, histIds, index, now, expireAt, sres,
                   puts, deleting, convs, loaded, reading, dirVars>>

\* (mutant) disconnect that announces user_offline only for the user's last connection
DisconnectOpenLastOnly(c) ==
    /\ connState[c] = "open"
    /\ LET left == group_discard(groups, UserGroupName(connUserId[c]), c)
           event == UserOfflineEvent(connUserId[c])
           last == left[UserGroupName(connUserId[c])] = {}
       IN /\ groups' = left
          /\ queue' = [(IF last THEN group_send(queue, left, OnlineUsers, event)
                                ELSE queue) EXCEPT ![c] = <<>>]
          /\ published' = IF last THEN published \cup {PublishRec(c, OnlineUsers, event)}
                                  ELSE published
          /\ offlineSent' = [offlineSent EXCEPT ![c] = IF last THEN @ + 1 ELSE @]
    /\ connState' = [connState EXCEPT ![c] = "closed"]
    /\ frames' = [frames EXCEPT ![c] = <<>>]
    /\ UNCHANGED <<connUserId, connUser, nRecv, histIds, storeVars, dbVars, dirVars>>

\* disconnect of an accepted connection: leave the user group, send user_offline to
\* the group online_users; the consumer stops, its channel and socket are gone
DisconnectOpen(c) ==
    /\ connState[c] = "open"
    /\ LET left == group_discard(groups, UserGroupName(connUserId[c]), c)
           event == UserOfflineEvent(connUserId[c])
       IN /\ groups' = left
          /\ queue' = [group_send(queue, left, OnlineUsers, event) EXCEPT ![c] = <<>>]
          /\ published' = published \cup {PublishRec(c, OnlineUsers, event)}
    /\ connState' = [connState EXCEPT ![c] = "closed"]
    /\ frames' = [frames EXCEPT ![c] = <<>>]
    /\ offlineSent' = [offlineSent EXCEPT ![c] = @ + 1]
    /\ UNCHANGED <<connUserId, connUser, nRecv, histIds, storeVars, dbVars, dirVars>>

\* disconnect run once more for a connection that has disconnected: the handler has
\* no test of what it did before, it leaves the user group again (nothing to leave)
\* and sends user_offline again
DisconnectAgain(c) ==
    /\ connState[c] = "closed"
    /\ offlineSent[c] < MaxDisconnects
    /\ LET left == group_discard(groups, UserGroupName(connUserId[c]), c)
           event == UserOfflineEvent(connUserId[c])
       IN /\ groups' = left
          /\ queue' = [group_send(queue, left, OnlineUsers, event) EXCEPT ![c] = <<>>]
          /\ published' = published \cup {PublishRec(c, OnlineUsers, event)}
    /\ offlineSent' = [offlineSent EXCEPT ![c] = @ + 1]
    /\ UNCHANGED <<connState, connUserId, connUser, frames, nRecv, histIds, storeVars,
                   dbVars, dirVars>>

\* (mutant) disconnect of a rejected connection that runs like any other disconnect
DisconnectRejectedAnnounces(c) ==
    /\ connState[c] = "rejected"
    /\ LET left == group_discard(groups, UserGroupName(connUserId[c]), c)
           event == UserOfflineEvent(connUserId[c])
       IN /\ groups' = left
          /\ queue' = group_send(queue, left, OnlineUsers, event)
          /\ published' = published \cup {PublishRec(c, OnlineUsers, event)}
    /\ connState' = [connState EXCEPT ![c] = "failed"]
    /\ offlineSent' = [offlineSent EXCEPT ![c] = @ + 1]
    /\ UNCHANGED <<connUserId, connUser, frames, nRecv, histIds, storeVars, dbVars,
                   dirVars>>

\* disconnect of a connection connect closed: self.user_group_name was never set, the
\* handler raises AttributeError before it touches the channel layer
DisconnectRejected(c) ==
    /\ connState[c] = "rejected"
    /\ connState' = [connState EXCEPT ![c] = "failed"]
    /\ UNCHANGED <<connUserId, connUser, groups, queue, frames, nRecv, published,
                   histIds, storeVars, dbVars, dirVars, offlineSent>>

\* (mutant) the consumer takes the newest event of its channel
DeliverNewest(c) ==
    /\ connState[c] = "open"
    /\ queue[c] # <<>>
    /\ frames' = [frames EXCEPT ![c] = Append(@, HandlerFrame(queue[c][Len(queue[c])]))]
    /\ queue' = [queue EXCEPT ![c] = SubSeq(@, 1, Len(@) - 1)]
    /\ UNCHANGED <<connState, connUserId, connUser, groups, nRecv, published, histIds,
                   storeVars, dbVars, dirVars, offlineSent>>

\* the consumer takes the next event of its channel and runs the handler named by
\* the event's type, which sends one frame
Deliver(c) ==
    /\ connState[c] = "open"
    /\ queue[c] # <<>>
    /\ frames' = [frames EXCEPT ![c] = Append(@, HandlerFrame(Head(queue[c])))]
    /\ queue' = [queue EXCEPT ![c] = Tail(@)]
    /\ UNCHANGED <<connState, connUserId, connUser, groups, nRecv, published, histIds,
                   storeVars, dbVars, dirVars, offlineSent>>

\* an inbound frame answered by an error frame or a typing event is counted
Counted ==
    /\ nRecv < MaxRecv
    /\ Load < MaxLoad
    /\ nRecv' = nRecv + 1

SendError(c, text) == frames' = [frames EXCEPT ![c] = Append(@, ErrorFrame(text))]

\* receive of text that is not JSON
ReceiveInvalidJson(c) ==
    /\ connState[c] = "open"
    /\ SendError(c, "Invalid JSON")
    /\ Counted
    /\ UNCHANGED <<connState, connUserId, connUser, groups, queue, published, histIds,
                   storeVars, dbVars, dirVars, offlineSent>>

\* receive of a JSON object whose type is missing or none of the three known ones:
\* the else branch only prints
ReceiveUnknownType(c) ==
    /\ connState[c] = "open"
    /\ Counted
    /\ UNCHANGED <<connState, connUserId, connUser, groups, queue, frames, published,
                   histIds, storeVars, dbVars, dirVars, offlineSent>>

\* (mutant) handle_send_message without the test of content
SendCheckNoContent(c, conversation_id, content) ==
    IF conversation_id = NoneVal THEN "Missing conversation_id or content"
    ELSE IF conversation_id = BadUuid THEN "is not a valid UUID"
    ELSE IF ConvRows(conversation_id) = {} THEN "Conversation not found"
    ELSE IF ~ is_user_in_conversation(CHOOSE r \in ConvRows(conversation_id) : TRUE,
                                      connUser[c])
    THEN "Access denied"
    ELSE "ok"

\* (mutant) handle_send_message without the test of is_user_in_conversation
SendCheckNoAccess(c, conversation_id, content) ==
    IF conversation_id = NoneVal \/ content = ""
    THEN "Missing conversation_id or content"
    ELSE IF conversation_id = BadUuid THEN "is not a valid UUID"
    ELSE IF ConvRows(conversation_id) = {} THEN "Conversation not found"
    ELSE "ok"

\* what the checks of handle_send_message answer before create_message is called;
\* "ok" when they all pass. A conversation_id that is no UUID makes the query raise,
\* and receive sends the text of the exception
SendCheck(c, conversation_id, content) ==
    IF conversation_id = NoneVal \/ content = ""
    THEN "Missing conversation_id or content"
    ELSE IF conversation_id = BadUuid THEN "is not a valid UUID"
    ELSE IF ConvRows(conversation_id) = {} THEN "Conversation not found"
    ELSE IF ~ is_user_in_conversation(CHOOSE r \in ConvRows(conversation_id) : TRUE,
                                      connUser[c])
    THEN "Access denied"
    ELSE "ok"

\* (mutant) new_message goes to the other participant only, not back to the sender
SendGroupsNoEcho(c, conversation) ==
    <<UserGroupName(get_other_user(conversation, connUser[c]))>>

\* (mutant) new_message is sent to the sender's own group a second time
SendGroupsRepeat(c, conversation) ==
    <<UserGroupName(connUserId[c]),
      UserGroupName(get_other_user(conversation, connUser[c])),
      UserGroupName(connUserId[c])>>

\* the groups handle_send_message sends new_message to, in order
SendGroups(c, conversation) ==
    <<UserGroupName(connUserId[c]),
      UserGroupName(get_other_user(conversation, connUser[c]))>>

\* group_send to each group of a list in turn
RECURSIVE SendAll(_, _, _, _)
SendAll(q, g, to, event) ==
    IF to = <<>> THEN q
    ELSE SendAll(group_send(q, g, Head(to), event), g, Tail(to), event)

\* the two group_send calls of handle_send_message
PublishNewMessage(c, conversation, message_data) ==
    LET event == NewMessageEvent(conversation.id, message_data)
        to == SendGroups(c, conversation)
    IN /\ queue' = SendAll(queue, groups, to, event)
       /\ published' = published \cup
                         {PublishRec(c, to[i], event) : i \in 1..Len(to)}

\* create_message: the payload write, the metadata row, the conversation's updated_at
CreateMessage(c, conversation, content, message_id) ==
    LET other_user == get_other_user(conversation, connUser[c])
    IN /\ payloads' = AtTime(StorePayload(payloads, message_id, conversation.id,
                                          connUser[c], other_user, content, now),
                             StoreExpiry(expireAt, message_id, now), now + 4)
       /\ expireAt' = StoreExpiry(expireAt, message_id, now)
       /\ index' = StoreIndex(index, message_id, conversation.id, now)
       /\ UNCHANGED <<sres, puts, deleting, loaded, reading>>
       /\ metadata' = metadata \cup
             {MessageRow(conversation, connUser[c], other_user, message_id, now + 2)}
       /\ convs' = TouchConversation(convs, conversation, now + 3)
       /\ now' = now + 4

\* (mutant) the view names the other participant as sender
MessageViewSwapped(c, conversation, content, message_id) ==
    MessageData(message_id, conversation.id, get_other_user(conversation, connUser[c]),
                connUser[c], content, now + 4)
\* the message view create_message returns
MessageView(c, conversation, content, message_id) ==
    MessageData(message_id, conversation.id, connUser[c],
                get_other_user(conversation, connUser[c]), content, now + 4)

\* uuid4() is called once the checks have passed, and returns an id never seen
FreshIds(c, conversation_id, content) ==
    IF SendCheck(c, conversation_id, content) = "ok" THEN MsgIds \ usedIds ELSE {0}

\* receive of a send_message frame: handle_send_message
SendMessage(c, conversation_id, content, message_id) ==
    /\ connState[c] = "open"
    /\ LET check == SendCheck(c, conversation_id, content) IN
       IF check # "ok"
       THEN /\ SendError(c, check)
            /\ Counted
            /\ UNCHANGED <<queue, published, histIds, storeVars, dbVars>>
       ELSE LET conversation == CHOOSE r \in ConvRows(conversation_id) : TRUE
            IN /\ message_id \notin usedIds
               /\ Load < MaxLoad
               /\ usedIds' = usedIds \cup {message_id}
               /\ sent' = [sent EXCEPT ![c] = Append(@, message_id)]
               /\ CreateMessage(c, conversation, content, message_id)
               /\ PublishNewMessage(c, conversation,
                                    MessageView(c, conversation, content, message_id))
               /\ UNCHANGED <<frames, nRecv>>
    /\ UNCHANGED <<connState, connUserId, connUser, groups, dirVars, offlineSent>>

\* create_message has no except clause: when create_message_metadata raises, the
\* payload written before it stays
OnMetadataErrorRollback(p, message_id) == [id \in DOMAIN p \ {message_id} |-> p[id]]
OnMetadataError(p, message_id) == p
\* when store_message raises, create_message is left before create_message_metadata
MetadataOnStoreErrorWritten(md, row) == md \cup {row}
MetadataOnStoreError(md, row) == md
\* the commands of store_message that can fail
StoreStages == {"setex", "zadd", "expire"}

\* handle_send_message when a Redis command of store_message raises: what the
\* commands before it wrote stays, the exception leaves create_message and
\* handle_send_message, and receive answers with an error frame
SendMessageStoreFails(c, conversation_id, content, message_id, stage) ==
    /\ connState[c] = "open"
    /\ SendCheck(c, conversation_id, content) = "ok"
    /\ message_id \notin usedIds
    /\ Load < MaxLoad
    /\ LET conversation == CHOOSE r \in ConvRows(conversation_id) : TRUE
           other_user == get_other_user(conversation, connUser[c])
       IN /\ payloads' = IF stage = "setex" THEN payloads
                         ELSE StorePayload(payloads, message_id, conversation.id,
                                           connUser[c], other_user, content, now)
          /\ expireAt' = IF stage = "setex" THEN expireAt
                         ELSE StoreExpiry(expireAt, message_id, now)
          /\ index' = IF stage = "expire"
                      THEN StoreIndex(index, message_id, conversation.id, now)
                      ELSE index
          /\ now' = IF stage = "setex" THEN now + 1 ELSE now + 2
          /\ metadata' = MetadataOnStoreError(metadata,
                             MessageRow(conversation, connUser[c], other_user,
                                        message_id, now + 2))
    /\ SendError(c, "redis.exceptions.ConnectionError")
    /\ usedIds' = usedIds \cup {message_id}
    /\ UNCHANGED <<connState, connUserId, connUser, groups, queue, nRecv, published, sent,
                   offlineSent, sres, puts, deleting, convs, loaded, reading, dirVars>>

\* handle_send_message when Message.objects.create raises after store_message has
\* returned
SendMessageMetadataFails(c, conversation_id, content, message_id) ==
    /\ connState[c] = "open"
    /\ SendCheck(c, conversation_id, content) = "ok"
    /\ message_id \notin usedIds
    /\ Load < MaxLoad
    /\ LET conversation == CHOOSE r \in ConvRows(conversation_id) : TRUE
           other_user == get_other_user(conversation, connUser[c])
       IN /\ payloads' = OnMetadataError(
                             StorePayload(payloads, message_id, conversation.id,
                                          connUser[c], other_user, content, now),
                             message_id)
          /\ expireAt' = StoreExpiry(expireAt, message_id, now)
          /\ index' = StoreIndex(index, message_id, conversation.id, now)
          /\ now' = now + 2
    /\ SendError(c, "django.db.utils.DatabaseError")
    /\ usedIds' = usedIds \cup {message_id}
    /\ UNCHANGED <<connState, connUserId, connUser, groups, queue, nRecv, published, sent,
                   offlineSent, sres, puts, deleting, dbVars, dirVars>>

\* (mutant) the failed publish takes the payload and the row back
SendMessagePublishFailsRollback(c, conversation_id, content, message_id) ==
    /\ connState[c] = "open"
    /\ SendCheck(c, conversation_id, content) = "ok"
    /\ message_id \notin usedIds
    /\ Load < MaxLoad
    /\ LET conversation == CHOOSE r \in ConvRows(conversation_id) : TRUE
           event == NewMessageEvent(conversation.id,
                        MessageView(c, conversation, content, message_id))
           to == SendGroups(c, conversation)
       IN /\ queue' = group_send(queue, groups, to[1], event)
          /\ published' = published \cup {PublishRec(c, to[1], event)}
          /\ now' = now + 4
    /\ SendError(c, "redis.exceptions.ConnectionError")
    /\ usedIds' = usedIds \cup {message_id}
    /\ sent' = [sent EXCEPT ![c] = Append(@, message_id)]
    /\ UNCHANGED <<connState, connUserId, connUser, groups, nRecv, offlineSent,
                   payloads, index, expireAt, sres, puts, deleting, dbVars, dirVars>>

\* handle_send_message when the second group_send raises: create_message has
\* returned and the event has gone to the group of the sender; the exception leaves
\* handle_send_message and receive answers with an error frame
SendMessagePublishFails(c, conversation_id, content, message_id) ==
    /\ connState[c] = "open"
    /\ SendCheck(c, conversation_id, content) = "ok"
    /\ message_id \notin usedIds
    /\ Load < MaxLoad
    /\ LET conversation == CHOOSE r \in ConvRows(conversation_id) : TRUE
           event == NewMessageEvent(conversation.id,
                        MessageView(c, conversation, content, message_id))
           to == SendGroups(c, conversation)
       IN /\ CreateMessage(c, conversation, content, message_id)
          /\ queue' = group_send(queue, groups, to[1], event)
          /\ published' = published \cup {PublishRec(c, to[1], event)}
    /\ SendError(c, "redis.exceptions.ConnectionError")
    /\ usedIds' = usedIds \cup {message_id}
    /\ sent' = [sent EXCEPT ![c] = Append(@, message_id)]
    /\ UNCHANGED <<connState, connUserId, connUser, groups, nRecv, offlineSent,
                   dirVars>>

\* what the checks of handle_typing and handle_stop_typing answer: they return
\* without a word when conversation_id is missing or names no row. Whether the
\* sender is a participant is not looked at
TypingCheck(conversation_id) ==
    IF conversation_id = NoneVal THEN "ignored"
    ELSE IF conversation_id = BadUuid THEN "is not a valid UUID"
    ELSE IF ConvRows(conversation_id) = {} THEN "ignored"
    ELSE "ok"

\* handle_typing and handle_stop_typing: the event goes to the group of get_other_user
HandleTyping(c, conversation_id, event) ==
    /\ connState[c] = "open"
    /\ LET check == TypingCheck(conversation_id) IN
       IF check = "ok"
       THEN LET conversation == CHOOSE r \in ConvRows(conversation_id) : TRUE
                group == UserGroupName(get_other_user(conversation, connUser[c]))
            IN /\ queue' = group_send(queue, groups, group, event)
               /\ published' = published \cup {PublishRec(c, group, event)}
               /\ Counted
               /\ UNCHANGED frames
       ELSE IF check = "ignored"
       THEN UNCHANGED <<queue, published, frames, nRecv>>
       ELSE /\ SendError(c, check)
            /\ Counted
            /\ UNCHANGED <<queue, published>>
    /\ UNCHANGED <<connState, connUserId, connUser, groups, histIds, storeVars, dbVars,
                   dirVars, offlineSent>>

Typing(c, conversation_id) ==
    HandleTyping(c, conversation_id, UserTypingEvent(conversation_id, connUserId[c]))

StopTyping(c, conversation_id) ==
    HandleTyping(c, conversation_id, UserStopTypingEvent(conversation_id, connUserId[c]))

\* ------------------------------------------------------- Conversation
\* (mutant) the pair is looked up as it was given
OrderedPairAsGiven(user1, user2) == <<user1, user2>>

\* get_or_create_conversation puts the smaller id first
OrderedPair(user1, user2) == IF user1 > user2 THEN <<user2, user1>> ELSE <<user1, user2>>

\* (mutant) no unique_together
UniqueTogetherOff(pair) == TRUE
PairRows(pair) == {r \in convs : r.user1 = pair[1] /\ r.user2 = pair[2]}
\* Meta: unique_together (user1, user2) and the constraint no_self_conversation
UniqueTogether(pair) == PairRows(pair) = {}
\* (mutant) no check constraint
NoSelfConversationOff(pair) == TRUE
NoSelfConversation(pair) == pair[1] # pair[2]
\* uuid.uuid4 as default of the primary key
FreshConvId == CHOOSE i \in ConvIds : i \notin {r.id : r \in convs}

\* get_or_create_conversation(user1, user2) is called: the ordering of the pair
DirCall(k, user1, user2) ==
    /\ dpc[k] = "idle"
    /\ \A j \in Calls : j < k => dpc[j] # "idle"
    /\ dpc' = [dpc EXCEPT ![k] = "get"]
    /\ dcall' = [dcall EXCEPT ![k] = <<user1, user2>>]
    /\ dargs' = [dargs EXCEPT ![k] = OrderedPair(user1, user2)]
    /\ UNCHANGED <<dres, gwVars, storeVars, dbVars>>

\* conversation_detail_view, POST: a request that names the requester is answered 400
\* before the model is called; any other goes to get_or_create_conversation
ConversationDetailPost(k, user, other_user) ==
    IF other_user = user
    THEN /\ dpc[k] = "idle"
         /\ \A j \in Calls : j < k => dpc[j] # "idle"
         /\ dpc' = [dpc EXCEPT ![k] = "400"]
         /\ dcall' = [dcall EXCEPT ![k] = <<user, other_user>>]
         /\ UNCHANGED <<dargs, dres, gwVars, storeVars, dbVars>>
    ELSE DirCall(k, user, other_user)

\* objects.get_or_create, the first query: get(user1=, user2=)
DirGet(k) ==
    /\ dpc[k] = "get"
    /\ IF PairRows(dargs[k]) # {}
       THEN /\ dres' = [dres EXCEPT ![k] =
                          <<(CHOOSE r \in PairRows(dargs[k]) : TRUE).id, 0>>]
            /\ dpc' = [dpc EXCEPT ![k] = "done"]
       ELSE /\ dpc' = [dpc EXCEPT ![k] = "create"]
            /\ UNCHANGED dres
    /\ UNCHANGED <<dcall, dargs, gwVars, storeVars, dbVars>>

\* objects.get_or_create, the INSERT: the database refuses a row that breaks a
\* constraint (IntegrityError), and get_or_create goes on to its second query
DirCreate(k) ==
    /\ dpc[k] = "create"
    /\ IF UniqueTogether(dargs[k]) /\ NoSelfConversation(dargs[k])
       THEN /\ \E i \in ConvIds : i \notin {r.id : r \in convs}
            /\ convs' = convs \cup
                  {[id |-> FreshConvId, user1 |-> dargs[k][1], user2 |-> dargs[k][2],
                    created_at |-> now, updated_at |-> now]}
            /\ dres' = [dres EXCEPT ![k] = <<FreshConvId, 1>>]
            /\ dpc' = [dpc EXCEPT ![k] = "done"]
       ELSE /\ dpc' = [dpc EXCEPT ![k] = "retry"]
            /\ UNCHANGED <<convs, dres>>
    /\ UNCHANGED <<dcall, dargs, metadata, loaded, reading, gwVars, storeVars>>

\* objects.get_or_create after IntegrityError: get again, or raise the error
DirRetry(k) ==
    /\ dpc[k] = "retry"
    /\ IF PairRows(dargs[k]) # {}
       THEN /\ dres' = [dres EXCEPT ![k] =
                          <<(CHOOSE r \in PairRows(dargs[k]) : TRUE).id, 0>>]
            /\ dpc' = [dpc EXCEPT ![k] = "done"]
       ELSE /\ dpc' = [dpc EXCEPT ![k] = "IntegrityError"]
            /\ UNCHANGED dres
    /\ UNCHANGED <<dcall, dargs, gwVars, storeVars, dbVars>>

\* ------------------------------------------------------- HTTP views
\* get_object_or_404(Conversation) and the participant check of the message views
ViewCheck(user, conversation_id) ==
    IF ConvRows(conversation_id) = {} THEN 404
    ELSE LET conversation == CHOOSE r \in ConvRows(conversation_id) : TRUE
         IN IF conversation.user1 # user /\ conversation.user2 # user THEN 403 ELSE 200
ViewResponse(view, id, status, data) ==
    [op |-> view, id |-> id, result |-> <<status, data>>]

\* send_message_view with MessageSerializer.create: store_message, the Message row,
\* conversation.save()
SendMessageView(user, conversation_id, content, message_id) ==
    /\ LET check == ViewCheck(user, conversation_id) IN
       IF check # 200
       THEN /\ sres' = ViewResponse("send_message_view", conversation_id, check, <<>>)
            /\ UNCHANGED <<payloads, index, now, expireAt, usedIds, dbVars>>
       ELSE IF content = ""
       THEN /\ sres' = ViewResponse("send_message_view", conversation_id, 400, <<>>)
            /\ UNCHANGED <<payloads, index, now, expireAt, usedIds, dbVars>>
       ELSE LET conversation == CHOOSE r \in ConvRows(conversation_id) : TRUE
                receiver == get_other_user(conversation, user)
            IN /\ message_id \notin usedIds
               /\ usedIds' = usedIds \cup {message_id}
               /\ payloads' = AtTime(StorePayload(payloads, message_id, conversation.id,
                                                  user, receiver, content, now),
                                     StoreExpiry(expireAt, message_id, now), now + 4)
               /\ expireAt' = StoreExpiry(expireAt, message_id, now)
               /\ index' = StoreIndex(index, message_id, conversation.id, now)
               /\ metadata' = metadata \cup
                     {MessageRow(conversation, user, receiver, message_id, now + 2)}
               /\ convs' = TouchConversation(convs, conversation, now + 3)
               /\ now' = now + 4
               /\ sres' = ViewResponse("send_message_view", conversation_id, 201,
                                       <<message_id>>)
               /\ UNCHANGED <<loaded, reading>>
    /\ UNCHANGED <<connState, connUserId, connUser, groups, queue, frames, nRecv,
                   published, sent, offlineSent, puts, deleting, dirVars>>

\* filter(conversation, receiver, is_read=False).update(is_read=True)
MarkRead(md, conversation_id, user) ==
    {IF r.conversation = conversation_id /\ r.receiver = user /\ ~ r.is_read
     THEN [r EXCEPT !.is_read = TRUE] ELSE r : r \in md}

\* get_messages_view: the page of the conversation, and the rows received by the
\* requesting user are marked read
GetMessagesView(user, conversation_id) ==
    /\ LET check == ViewCheck(user, conversation_id) IN
       IF check # 200
       THEN /\ sres' = ViewResponse("get_messages_view", conversation_id, check, <<>>)
            /\ UNCHANGED metadata
       ELSE /\ metadata' = MarkRead(metadata, conversation_id, user)
            /\ sres' = ViewResponse("get_messages_view", conversation_id, 200,
                                    get_chat_messages(payloads, index, conversation_id,
                                                      DefaultLimit, 0))
    /\ UNCHANGED <<payloads, index, now, expireAt, puts, deleting, convs, loaded, reading,
                   gwVars, dirVars>>

\* get_messages_view up to the read of the page: the conversation and the access
\* check, then get_chat_messages; the update of is_read has not run yet
GetMessagesRead(user, conversation_id) ==
    /\ LET check == ViewCheck(user, conversation_id) IN
       IF check # 200
       THEN /\ sres' = ViewResponse("get_messages_view", conversation_id, check, <<>>)
            /\ UNCHANGED reading
       ELSE /\ Cardinality(reading) < MaxReading
            /\ reading' = reading \cup
                  {[user |-> user, conversation_id |-> conversation_id,
                    messages |-> get_chat_messages(payloads, index, conversation_id,
                                                   DefaultLimit, 0)]}
            /\ UNCHANGED sres
    /\ UNCHANGED <<payloads, index, now, expireAt, puts, deleting, convs, metadata,
                   loaded, gwVars, dirVars>>

\* the update of get_messages_view: every unread row of the conversation whose
\* receiver is the requesting user, whatever the page held
MarkReadOfCall(md, call) == MarkRead(md, call.conversation_id, call.user)

\* the rest of get_messages_view: the update of is_read on the rows as they are now,
\* and the response with the page that was read before
GetMessagesUpdate(call) ==
    /\ call \in reading
    /\ reading' = reading \ {call}
    /\ metadata' = MarkReadOfCall(metadata, call)
    /\ sres' = ViewResponse("get_messages_view", call.conversation_id, 200,
                            call.messages)
    /\ UNCHANGED <<payloads, index, now, expireAt, puts, deleting, convs, loaded,
                   gwVars, dirVars>>

\* (mutant) delete_message_view without the sender check
DeleteViewLoadAnyUser(user, message_id) ==
    /\ LET rows == {r \in metadata : r.message_id = message_id} IN
       IF rows = {}
       THEN /\ sres' = ViewResponse("delete_message_view", message_id, 404, <<>>)
            /\ UNCHANGED <<loaded, reading>>
       ELSE /\ loaded' = loaded \cup {CHOOSE r \in rows : TRUE}
            /\ UNCHANGED sres
    /\ UNCHANGED <<payloads, index, now, expireAt, puts, deleting, convs, metadata,
                   reading, gwVars, dirVars>>

\* delete_message_view up to the sender check: get_object_or_404(Message) reads the
\* row into a model instance
DeleteViewLoad(user, message_id) ==
    /\ LET rows == {r \in metadata : r.message_id = message_id} IN
       IF rows = {}
       THEN /\ sres' = ViewResponse("delete_message_view", message_id, 404, <<>>)
            /\ UNCHANGED <<loaded, reading>>
       ELSE LET message == CHOOSE r \in rows : TRUE
            IN IF message.sender # user
               THEN /\ sres' = ViewResponse("delete_message_view", message_id, 403, <<>>)
                    /\ UNCHANGED <<loaded, reading>>
               ELSE /\ loaded' = loaded \cup {message}
                    /\ UNCHANGED sres
    /\ UNCHANGED <<payloads, index, now, expireAt, puts, deleting, convs, metadata,
                   reading, gwVars, dirVars>>

\* Model.save() of an instance: every column of the row is written from the instance
SaveRow(md, message) == {r \in md : r.message_id # message.message_id} \cup {message}

\* the rest of delete_message_view: is_deleted = True, message.save(), and
\* delete_message of the payload
DeleteViewSave(message) ==
    /\ message \in loaded
    /\ loaded' = loaded \ {message}
    /\ metadata' = SaveRow(metadata, [message EXCEPT !.is_deleted = TRUE])
    /\ IF message.message_id \in DOMAIN payloads
       THEN LET message_data == get_message(payloads, message.message_id)
            IN /\ payloads' = [id \in DOMAIN payloads \ {message.message_id} |->
                                 payloads[id]]
               /\ expireAt' = [expireAt EXCEPT ![message.message_id] = 0]
               /\ index' = [index EXCEPT ![message_data.conversation_id] =
                                            ZRem(@, message.message_id)]
       ELSE UNCHANGED <<payloads, index, expireAt>>
    /\ sres' = ViewResponse("delete_message_view", message.message_id, 200, <<>>)
    /\ UNCHANGED <<now, puts, deleting, convs, reading, gwVars, dirVars>>

\* ------------------------------------------------------- specification
\* the conversations of users 1 and 2 and of users 2 and 3, as
\* get_or_create_conversation inserts them
StoredConversations ==
    {[id |-> 1, user1 |-> 1, user2 |-> 2, created_at |-> 0, updated_at |-> 0],
     [id |-> 2, user1 |-> 2, user2 |-> 3, created_at |-> 0, updated_at |-> 0]}
\* the ids a frame can name: none, a text that is no UUID, the stored conversations
\* and a UUID of no row
ConvInputs == {NoneVal, BadUuid, 1, 2, 3}

NoCall == <<0, 0>>
\* no call of the message service yet
NoResult == [op |-> "none", id |-> 0, result |-> <<>>]
\* no direct call of store_message has returned this id (every call is made at a
\* time of 1 or later)
NoPut == [conversation_id |-> 0, sender_id |-> 0, receiver_id |-> 0, content |-> "",
          at |-> 0, deleted |-> FALSE]
\* what the message service is called with: conversation, sender, receiver, content
StoreInputs == {<<1, 1, 2, "hello">>, <<1, 2, 1, "hi">>, <<2, 2, 3, "hello">>}
\* how far the clock is moved in one step
ElapseSteps == {1, message_ttl - MaxTick, message_ttl}
GatewayInit ==
    /\ connState = [c \in Conns |-> "connecting"]
    /\ connUserId = [c \in Conns |-> NoneVal]
    /\ connUser = [c \in Conns |-> Anonymous]
    /\ groups = [g \in GroupNames |-> {}]
    /\ queue = [c \in Conns |-> <<>>]
    /\ frames = [c \in Conns |-> <<>>]
    /\ nRecv = 0
    /\ published = {}
    /\ usedIds = {}
    /\ sent = [c \in Conns |-> <<>>]
    /\ offlineSent = [c \in Conns |-> 0]
StoreInit ==
    /\ payloads = <<>>
    /\ index = [k \in ConvIds |-> {}]
    /\ now = 1
    /\ expireAt = [m \in MsgIds |-> 0]
    /\ sres = NoResult
    /\ puts = [m \in MsgIds |-> NoPut]
    /\ deleting = [m \in MsgIds |-> NoneVal]
    /\ metadata = {}
    /\ loaded = {}
    /\ reading = {}
DirIdle ==
    /\ dpc = [k \in Calls |-> "idle"]
    /\ dcall = [k \in Calls |-> NoCall]
    /\ dargs = [k \in Calls |-> NoCall]
    /\ dres = [k \in Calls |-> NoCall]

Init ==
    /\ GatewayInit
    /\ StoreInit
    /\ DirIdle
    /\ convs = StoredConversations

Next ==
    \E c \in Conns :
        \/ \E user_id \in Users, token_key \in TokenKeys : Connect(c, user_id, token_key)
        \/ DisconnectOpen(c)
        \/ DisconnectRejected(c)
        \/ Deliver(c)
        \/ ReceiveInvalidJson(c)
        \/ ReceiveUnknownType(c)
        \/ \E conversation_id \in ConvInputs, content \in ContentInputs :
              \E message_id \in FreshIds(c, conversation_id, content) :
                SendMessage(c, conversation_id, content, message_id)
        \/ \E conversation_id \in ConvInputs : Typing(c, conversation_id)
        \/ \E conversation_id \in ConvInputs : StopTyping(c, conversation_id)

Spec == Init /\ [][Next]_vars

\* the gateway without stored messages, and with a disconnect handler that may run
\* a second time
GatewayNext ==
    \E c \in Conns :
        \/ \E user_id \in Users, token_key \in TokenKeys : Connect(c, user_id, token_key)
        \/ DisconnectOpen(c)
        \/ DisconnectAgain(c)
        \/ DisconnectRejected(c)
        \/ Deliver(c)
        \/ ReceiveInvalidJson(c)
        \/ ReceiveUnknownType(c)
        \/ \E conversation_id \in ConvInputs : Typing(c, conversation_id)
        \/ \E conversation_id \in ConvInputs : StopTyping(c, conversation_id)

GatewaySpec == Init /\ [][GatewayNext]_vars

\* the send pipeline with a message store and a database that can fail
PipelineNext ==
    \E c \in Conns :
        \/ \E user_id \in Users, token_key \in TokenKeys : Connect(c, user_id, token_key)
        \/ DisconnectOpen(c)
        \/ Deliver(c)
        \/ \E conversation_id \in ConvInputs, content \in ContentInputs :
              \E message_id \in FreshIds(c, conversation_id, content) :
                SendMessage(c, conversation_id, content, message_id)
        \/ \E conversation_id \in ConvInputs, content \in ContentInputs,
              message_id \in MsgIds, stage \in StoreStages :
              SendMessageStoreFails(c, conversation_id, content, message_id, stage)
        \/ \E conversation_id \in ConvInputs, content \in ContentInputs,
              message_id \in MsgIds :
              SendMessageMetadataFails(c, conversation_id, content, message_id)
        \/ \E conversation_id \in ConvInputs, content \in ContentInputs,
              message_id \in MsgIds :
              SendMessagePublishFails(c, conversation_id, content, message_id)

PipelineSpec == Init /\ [][PipelineNext]_vars

\* the message service alone, with time passing
StoreNext ==
    \/ \E args \in StoreInputs, message_id \in MsgIds :
          StoreMessage(args[1], args[2], args[3], args[4], message_id)
    \/ \E message_id \in MsgIds : GetMessage(message_id)
    \/ \E message_id \in MsgIds : DeleteMessage(message_id)
    \/ \E d \in ElapseSteps : Elapse(d)

StoreSpec == Init /\ [][StoreNext]_vars

\* the message service with callers that run at the same time
ListConvs == {1, 2}
ListNext ==
    \/ \E args \in StoreInputs, message_id \in MsgIds :
          StoreMessage(args[1], args[2], args[3], args[4], message_id)
    \/ \E message_id \in MsgIds : GetMessage(message_id)
    \/ \E message_id \in MsgIds : DeleteKey(message_id)
    \/ \E message_id \in MsgIds : DeleteIndexEntry(message_id)
    \/ \E conversation_id \in ListConvs, limit \in 1..MaxLimit, offset \in 0..MaxOffset :
          GetChatMessages(conversation_id, limit, offset)
    \/ \E d \in ElapseSteps : Elapse(d)

ListSpec == Init /\ [][ListNext]_vars

\* the HTTP views of the messages, called by requests that run at the same time
ViewConvs == {1, 3}
ViewNext ==
    \/ \E user \in Users, conversation_id \in ViewConvs, content \in ContentInputs,
          message_id \in MsgIds :
          SendMessageView(user, conversation_id, content, message_id)
    \/ \E user \in Users, conversation_id \in ViewConvs :
          GetMessagesView(user, conversation_id)
    \/ \E user \in Users, message_id \in MsgIds : DeleteViewLoad(user, message_id)
    \/ \E message \in loaded : DeleteViewSave(message)

ViewSpec == Init /\ [][ViewNext]_vars

\* the list view in its two steps, next to sends over HTTP and sends over the socket,
\* of which the metadata write can fail
ReadConns == {1}
ReadNext ==
    \/ \E c \in ReadConns, user_id \in Users, token_key \in TokenKeys :
          Connect(c, user_id, token_key)
    \/ \E c \in ReadConns, conversation_id \in ConvInputs, content \in ContentInputs :
          \E message_id \in FreshIds(c, conversation_id, content) :
            SendMessage(c, conversation_id, content, message_id)
    \/ \E c \in ReadConns, conversation_id \in ConvInputs, content \in ContentInputs,
          message_id \in MsgIds :
          SendMessageMetadataFails(c, conversation_id, content, message_id)
    \/ \E user \in Users, conversation_id \in ViewConvs, content \in ContentInputs,
          message_id \in MsgIds :
          SendMessageView(user, conversation_id, content, message_id)
    \/ \E user \in Users, conversation_id \in ViewConvs :
          GetMessagesRead(user, conversation_id)
    \/ \E call \in reading : GetMessagesUpdate(call)

ReadSpec == Init /\ [][ReadNext]_vars

\* the Conversation Directory alone: concurrent get_or_create_conversation calls on
\* an empty table
DirInit ==
    /\ GatewayInit
    /\ StoreInit
    /\ DirIdle
    /\ convs = {}

DirNext ==
    \E k \in Calls :
        \/ \E user1 \in Users, user2 \in Users : DirCall(k, user1, user2)
        \/ \E user \in Users, other_user \in Users :
              ConversationDetailPost(k, user, other_user)
        \/ DirGet(k)
        \/ DirCreate(k)
        \/ DirRetry(k)

DirSpec == DirInit /\ [][DirNext]_vars

\* ------------------------------------------------------- properties
Participants(conversation_id) ==
    UNION {{r.user1, r.user2} : r \in ConvRows(conversation_id)}
\* what connection d has been sent or is about to be sent: its frames, then the
\* frames of the events waiting on its channel
Stream(d) == frames[d] \o [i \in 1..Len(queue[d]) |-> HandlerFrame(queue[d][i])]
IsNewMessage(f, m) ==
    /\ "type" \in DOMAIN f
    /\ f.type = "new_message"
    /\ f.message.id = m
Count(d, m) == Cardinality({i \in 1..Len(Stream(d)) : IsNewMessage(Stream(d)[i], m)})
IsError(f) == "error" \in DOMAIN f

\* C1: a connection whose credential is missing, names no token, or belongs to
\* another user than the one of the route is closed by connect; a closed connection
\* is in no group, has been sent no frame, has no event waiting and has published
\* nothing (no user_online).
BadCredential(user_id, token_key) ==
    \/ token_key = NoToken
    \/ token_key \notin {TokenKey(u) : u \in Users}
    \/ token_key # TokenKey(user_id)
Inert(c) ==
    /\ \A g \in GroupNames : c \notin groups[g]
    /\ frames[c] = <<>>
    /\ queue[c] = <<>>
    /\ \A p \in published : p.by # c
C1_RejectedConnect ==
    /\ [](\A c \in Conns : connState[c] \in {"rejected", "failed"} => Inert(c))
    /\ [][\A c \in Conns, user_id \in Users, token_key \in TokenKeys :
            (Connect(c, user_id, token_key) /\ BadCredential(user_id, token_key))
                => connState'[c] = "rejected"]_vars
\* a connection with another user's token was closed, and a message has since been
\* published to the group of the user it asked for
C1_Witness ==
    \E c \in Conns :
        /\ connState[c] = "rejected"
        /\ connUser[c] # Anonymous
        /\ \E p \in published :
              p.group = UserGroupName(connUserId[c]) /\ p.event.type = "new_message"

\* the consumer of every connection keeps taking the events of its channel
FairSpec == Spec /\ \A c \in Conns : WF_vars(Deliver(c))

\* C2: a send that stores a message publishes one new_message event, the same one, to
\* the sender's user group and to the other participant's user group and to no
\* other; the event is put on the channel of every connection then joined to either
\* group, and a connection that stays open is sent the frame of every new_message
\* waiting on its channel.
Waiting(d, m) ==
    \E i \in 1..Len(queue[d]) : IsNewMessage(HandlerFrame(queue[d][i]), m)
Got(d, m) == \E i \in 1..Len(frames[d]) : IsNewMessage(frames[d][i], m)
PublishedToBoth(m) ==
    \E c \in Conns, r \in convs :
        /\ sent'[c] = Append(sent[c], m)
        /\ connUser[c] \in {r.user1, r.user2}
        /\ LET sender == connUser[c]
               receiver == CHOOSE u \in {r.user1, r.user2} : u # sender
               new == published' \ published
           IN \E e \in {p.event : p \in new} :
                /\ e.type = "new_message"
                /\ e.conversation_id = r.id
                /\ e.message.id = m
                /\ new = {PublishRec(c, UserGroupName(sender), e),
                          PublishRec(c, UserGroupName(receiver), e)}
                /\ \A d \in Conns :
                     queue'[d] = IF d \in groups[UserGroupName(sender)]
                                         \cup groups[UserGroupName(receiver)]
                                 THEN Append(queue[d], e)
                                 ELSE queue[d]
C2_SendReachesBothGroups ==
    /\ [][\A m \in MsgIds : (m \notin usedIds /\ m \in usedIds') => PublishedToBoth(m)]_vars
    /\ \A d \in Conns, m \in MsgIds :
          Waiting(d, m) ~> (Got(d, m) \/ connState[d] # "open")
\* the sender has two connections; the message one of them sent was published to the
\* groups of both participants, and both connections have been sent its frame
C2_Witness ==
    \E m \in MsgIds, c1 \in Conns, c2 \in Conns :
        /\ c1 # c2
        /\ connUser[c1] = connUser[c2]
        /\ sent[c1] = <<m>>
        /\ \E row \in metadata :
              /\ row.message_id = m
              /\ {rec.group : rec \in {p \in published : p.event.type = "new_message"}}
                    = {UserGroupName(row.sender), UserGroupName(row.receiver)}
        /\ Got(c1, m) /\ Got(c2, m)

\* C3: when a message is stored, every connection then joined to the sender's or the
\* receiver's user group gets its new_message exactly once and no other connection
\* gets it; afterwards the number of times an open connection has it never changes
\* (it is never sent again and never lost), so it is never more than one.
MetaRow(m) == CHOOSE r \in metadata : r.message_id = m
JoinedTo(user) == groups[UserGroupName(user)]
C3_FanoutExactlyOnce ==
    /\ [](\A d \in Conns, m \in MsgIds : Count(d, m) <= 1)
    /\ [][\A d \in Conns, m \in MsgIds :
            IF m \notin usedIds /\ m \in usedIds'
            THEN Count(d, m)' =
                   IF d \in JoinedTo(MetaRow(m)'.sender) \cup JoinedTo(MetaRow(m)'.receiver)
                   THEN 1 ELSE 0
            ELSE connState'[d] = "open" => Count(d, m)' = Count(d, m)]_vars
\* both participants are connected; each of the two connections has the message
\* once, one of them still waiting on its channel
C3_Witness ==
    \E m \in usedIds :
        /\ \A d \in Conns : connState[d] = "open" /\ Count(d, m) = 1
        /\ \E d \in Conns : Waiting(d, m)
        /\ \E d \in Conns : Got(d, m)
        /\ Cardinality(JoinedTo(MetaRow(m).sender)) = 1
        /\ Cardinality(JoinedTo(MetaRow(m).receiver)) = 1

\* C4: a send_message of a user who is not one of the conversation's two participants
\* is answered with the error frame "Access denied" and changes nothing else; and a
\* frame that carries a conversation's id (new_message, user_typing,
\* user_stop_typing) only ever reaches connections of that conversation's
\* participants.
C4_AccessControl ==
    /\ [](\A d \in Conns : \A i \in 1..Len(Stream(d)) :
            "conversation_id" \in DOMAIN Stream(d)[i]
                => connUser[d] \in Participants(Stream(d)[i].conversation_id))
    /\ [][\A c \in Conns, r \in convs, content \in Contents :
            (/\ connState[c] = "open"
             /\ connUser[c] \notin {r.user1, r.user2}
             /\ \E m \in FreshIds(c, r.id, content) : SendMessage(c, r.id, content, m))
                => /\ frames' = [frames EXCEPT ![c] = Append(@, ErrorFrame("Access denied"))]
                   /\ UNCHANGED <<connState, groups, queue, published, storeVars, dbVars>>]_vars
\* user 3 was refused in the conversation of users 1 and 2 while a participant's
\* connection was sent a message of that conversation
C4_Witness ==
    \E c \in Conns, d \in Conns :
        /\ connUser[c] = 3
        /\ frames[c] = <<ErrorFrame("Access denied")>>
        /\ connUser[d] \in {1, 2}
        /\ \E m \in MsgIds : Got(d, m) /\ MetaRow(m).conversation = 1

\* C5: a send_message frame without conversation_id or content, or whose
\* conversation_id names no conversation, is answered with one error frame on the
\* connection it came from; no other connection is sent anything, no event is put on
\* any channel and every connection stays as it was, the originating one open.
SendErrorTexts ==
    {"Missing conversation_id or content", "is not a valid UUID",
     "Conversation not found", "Access denied"}
C5_BadSendAnswered ==
    [][\A c \in Conns, conversation_id \in ConvInputs, content \in ContentInputs :
          (/\ connState[c] = "open"
           /\ (conversation_id = NoneVal \/ content = "" \/ ConvRows(conversation_id) = {})
           /\ \E m \in FreshIds(c, conversation_id, content) :
                 SendMessage(c, conversation_id, content, m))
              => /\ \E text \in SendErrorTexts :
                      frames'[c] = Append(frames[c], ErrorFrame(text))
                 /\ \A d \in Conns \ {c} : frames'[d] = frames[d]
                 /\ queue' = queue
                 /\ connState' = connState
                 /\ connState'[c] = "open"]_vars
\* a connection was answered with an error and afterwards sent a message and was
\* sent its frame
C5_Witness ==
    \E c \in Conns, m \in MsgIds :
        /\ Len(frames[c]) = 2
        /\ IsError(frames[c][1])
        /\ IsNewMessage(frames[c][2], m)
        /\ sent[c] = <<m>>

\* C6: a send_message that fails a check (missing field, no such conversation, sender
\* not a participant) leaves the payloads, every index, the metadata rows and the
\* conversations (updated_at included) as they were and publishes nothing.
FailsCheck(c, conversation_id, content) ==
    \/ conversation_id = NoneVal
    \/ content = ""
    \/ ConvRows(conversation_id) = {}
    \/ connUser[c] \notin Participants(conversation_id)
C6_FailedSendWritesNothing ==
    [][\A c \in Conns, conversation_id \in ConvInputs, content \in ContentInputs :
          (/\ connState[c] = "open"
           /\ FailsCheck(c, conversation_id, content)
           /\ \E m \in FreshIds(c, conversation_id, content) :
                 SendMessage(c, conversation_id, content, m))
              => UNCHANGED <<payloads, index, metadata, convs, published, queue>>]_vars
\* a send to a conversation that does not exist was refused after a message had been
\* stored, and the stores hold that one message only
C6_Witness ==
    \E c \in Conns :
        /\ Len(frames[c]) > 0
        /\ frames[c][Len(frames[c])] = ErrorFrame("Conversation not found")
        /\ Cardinality(DOMAIN payloads) = 1
        /\ Cardinality(metadata) = 1
        /\ Cardinality({p \in published : p.event.type = "new_message"}) = 2

\* C7: the messages one connection has sent to one conversation come back from
\* get_chat_messages (first page, default limit) most recent first: restricted to
\* them, the listing is their order of sending reversed, for every number of sends.
RECURSIVE Reverse(_)
Reverse(seq) == IF seq = <<>> THEN <<>> ELSE Reverse(Tail(seq)) \o <<Head(seq)>>
Range(seq) == {seq[i] : i \in 1..Len(seq)}
SentIn(c, conversation_id) ==
    SelectSeq(sent[c], LAMBDA m : MetaRow(m).conversation = conversation_id)
Listing(conversation_id) ==
    LET messages == get_chat_messages(payloads, index, conversation_id, DefaultLimit, 0)
    IN [i \in 1..Len(messages) |-> messages[i].id]
C7_IndexOrdering ==
    \A c \in Conns, conversation_id \in ConvIds :
        SelectSeq(Listing(conversation_id),
                   LAMBDA m : m \in Range(SentIn(c, conversation_id)))
            = Reverse(SentIn(c, conversation_id))
\* one connection sent two messages to a conversation, the first with the greater
\* id, and the listing has the second one first
C7_Witness ==
    \E c \in Conns, conversation_id \in ConvIds :
        /\ Len(sent[c]) = 2
        /\ sent[c][1] > sent[c][2]
        /\ SentIn(c, conversation_id) = sent[c]
        /\ Listing(conversation_id) = <<sent[c][2], sent[c][1]>>

\* C8: a connection is sent its events in the order they were put on its channel:
\* what an open connection has been sent and is still to be sent, error frames
\* aside, only grows at its end; and when one connection sends two messages, every
\* connection that gets both frames gets the first message's frame first.
Events(d) == SelectSeq(Stream(d), LAMBDA f : ~ IsError(f))
IsPrefix(s, t) == Len(s) <= Len(t) /\ SubSeq(t, 1, Len(s)) = s
Position(d, m) == CHOOSE i \in 1..Len(frames[d]) : IsNewMessage(frames[d][i], m)
C8_DeliveryOrdering ==
    /\ [](\A c \in Conns, d \in Conns : \A i \in 1..Len(sent[c]), j \in 1..Len(sent[c]) :
            (i < j /\ Got(d, sent[c][i]) /\ Got(d, sent[c][j]))
                => Position(d, sent[c][i]) < Position(d, sent[c][j]))
    /\ [][\A d \in Conns : (connState[d] = "open" /\ connState'[d] = "open")
                => IsPrefix(Events(d), Events(d)')]_vars
\* a connection other than the sender's has been sent the frames of both messages
\* of one sender, sent to the same conversation
C8_Witness ==
    \E c \in Conns : \E d \in Conns \ {c} :
        /\ Len(sent[c]) = 2
        /\ MetaRow(sent[c][1]).conversation = MetaRow(sent[c][2]).conversation
        /\ Got(d, sent[c][1])
        /\ Got(d, sent[c][2])
        /\ connUser[d] # connUser[c]

\* C9: two finished calls get_or_create_conversation(A, B) and
\* get_or_create_conversation(B, A), A and B distinct, return the same conversation
\* id, whichever came first and whether it created the row or found it.
Done(k) == dpc[k] = "done"
C9_SymmetricGetOrCreate ==
    \A k \in Calls, j \in Calls :
        (/\ Done(k) /\ Done(j)
         /\ dcall[k][1] # dcall[k][2]
         /\ dcall[j] = <<dcall[k][2], dcall[k][1]>>)
            => dres[k][1] = dres[j][1]
\* the call with the greater id first created the row and the call the other way
\* round found it
C9_Witness ==
    \E k \in Calls, j \in Calls :
        /\ Done(k) /\ Done(j)
        /\ dcall[k] = <<2, 1>> /\ dcall[j] = <<1, 2>>
        /\ dres[k][2] = 1 /\ dres[j][2] = 0
        /\ dres[k][1] = dres[j][1]

\* C10: however concurrent get_or_create_conversation calls interleave, there is at
\* most one row for an unordered pair of users, no row has user1 = user2, every
\* finished call of distinct users returns the id of the one row of its pair, and
\* no such call ends in an IntegrityError.
RowsOf(a, b) == {r \in convs : {r.user1, r.user2} = {a, b}}
C10_OneRowPerPair ==
    /\ \A a \in Users, b \in Users : Cardinality(RowsOf(a, b)) <= 1
    /\ \A r \in convs : r.user1 # r.user2
    /\ \A k \in Calls :
         /\ Done(k) => {r.id : r \in RowsOf(dcall[k][1], dcall[k][2])} = {dres[k][1]}
         /\ (dpc[k] = "IntegrityError") => dcall[k][1] = dcall[k][2]
\* first contact from both directions at once: one call inserted the row, the call
\* the other way round returned it, and a third call, whose first query had missed
\* the row, was refused by the constraint and is about to query again
C10_Witness ==
    \E k \in Calls, j \in Calls :
        /\ dcall[k] = <<1, 2>> /\ dcall[j] = <<2, 1>>
        /\ Done(k) /\ Done(j)
        /\ dres[k][2] = 1
        /\ dres[j][2] = 0
        /\ \E i \in Calls \ {k, j} : dpc[i] = "retry" /\ dargs[i] = <<1, 2>>

\* C11: get_or_create_conversation(A, A) never returns a conversation and never
\* inserts a row: its first query finds nothing, its INSERT is refused by the check
\* constraint, its second query finds nothing and the IntegrityError is raised; and
\* the view answers such a request 400 without calling the model.
SelfCall(k) == dpc[k] # "idle" /\ dcall[k][1] = dcall[k][2]
C11_SelfConversationRefused ==
    /\ [](/\ \A k \in Calls : SelfCall(k) => (~ Done(k) /\ dres[k] = NoCall)
          /\ \A r \in convs : r.user1 # r.user2)
    /\ [][\A k \in Calls :
            (SelfCall(k) /\ (DirGet(k) \/ DirCreate(k) \/ DirRetry(k)))
                => /\ convs' = convs
                   /\ dpc[k] = "get" => dpc'[k] = "create"
                   /\ dpc[k] = "create" => dpc'[k] = "retry"
                   /\ dpc[k] = "retry" => dpc'[k] = "IntegrityError"]_vars
\* a call for user 2 with itself has raised IntegrityError and a request of a user
\* for itself was answered 400, while the table holds the row of another call
C11_Witness ==
    \E k \in Calls, j \in Calls :
        /\ dcall[k] = <<2, 2>> /\ dpc[k] = "IntegrityError"
        /\ dpc[j] = "400"
        /\ Cardinality(convs) = 1

\* C12: (as claimed) a connect that is accepted leaves the connection in its user
\* group and in the group online_users, and the user_online event it sends is on its
\* way to every connection that is then open.
C12_ConnectJoinsPresence ==
    [][\A c \in Conns :
        (connState[c] = "connecting" /\ connState'[c] = "open")
            => /\ c \in groups'[UserGroupName(connUserId'[c])]
               /\ c \in groups'[OnlineUsers]
               /\ \A d \in Conns : connState'[d] = "open" =>
                    \E i \in 1..Len(Stream(d)') :
                        Stream(d)'[i] = HandlerFrame(UserOnlineEvent(connUserId'[c]))]_vars

\* C13: the disconnect of an accepted connection takes it out of every group and
\* sends user_offline for its user to the group online_users, once; from then on the
\* connection is in no group, no event waits on its channel and it is sent no frame.
IsTypingFrame(f) == "type" \in DOMAIN f /\ f.type \in {"user_typing", "user_stop_typing"}
OfflineRec(c) == PublishRec(c, OnlineUsers, UserOfflineEvent(connUserId[c]))
C13_DisconnectLeavesAndAnnounces ==
    /\ [](\A c \in Conns : connState[c] = "closed" =>
            /\ \A g \in GroupNames : c \notin groups[g]
            /\ queue[c] = <<>>
            /\ frames[c] = <<>>
            /\ OfflineRec(c) \in published)
    /\ [][\A c \in Conns : DisconnectOpen(c) =>
            /\ connState'[c] = "closed"
            /\ OfflineRec(c) \in published' \ published
            /\ offlineSent'[c] = offlineSent[c] + 1
            /\ \A g \in GroupNames : groups'[g] = groups[g] \ {c}]_vars
\* a connection of user 2 has disconnected and is in no group; a message for user 2
\* is on its way to the connection of its sender and not to the one that left
C13_Witness ==
    \E c \in Conns, d \in Conns, m \in usedIds :
        /\ connState[c] = "closed" /\ connUser[c] = 2
        /\ \A g \in GroupNames : c \notin groups[g]
        /\ connState[d] = "open" /\ connUser[d] = MetaRow(m).sender
        /\ MetaRow(m).receiver = 2
        /\ Count(d, m) = 1
        /\ Count(c, m) = 0

\* C14: (as claimed) running disconnect again for a connection that has disconnected
\* changes no group and sends no further user_offline.
C14_DisconnectIdempotent ==
    [][\A c \in Conns : DisconnectAgain(c) =>
          /\ groups' = groups
          /\ offlineSent'[c] = offlineSent[c]]_vars

\* C15: (as claimed) a frame that is not JSON, or whose type is missing or unknown,
\* is answered with one error frame on its connection, which stays open; no other
\* connection is sent anything.
C15_BadFrameAnswered ==
    [][\A c \in Conns : (ReceiveInvalidJson(c) \/ ReceiveUnknownType(c)) =>
          /\ \E f \in {Stream(c)'[i] : i \in 1..Len(Stream(c)')} :
                IsError(f) /\ frames'[c] = Append(frames[c], f)
          /\ \A d \in Conns \ {c} : frames'[d] = frames[d]
          /\ queue' = queue
          /\ connState'[c] = "open"]_vars

\* C16: (as claimed) a typing or stop_typing frame whose conversation does not exist,
\* or whose sender is not one of its two participants, sends no event to any group
\* and no frame to anyone.
C16_TypingFailsSilently ==
    [][\A c \in Conns, conversation_id \in ConvInputs \ {NoneVal, BadUuid} :
          (/\ connState[c] = "open"
           /\ (ConvRows(conversation_id) = {}
                 \/ connUser[c] \notin Participants(conversation_id))
           /\ (Typing(c, conversation_id) \/ StopTyping(c, conversation_id)))
              => UNCHANGED <<published, queue, frames>>]_vars

\* C17: a typing or stop_typing frame of a participant sends one event, to the user
\* group of the other participant only: the connections of that user get it, no
\* connection of the sender gets it, no frame is sent at once, and payloads, indexes,
\* metadata rows and conversations are unchanged. No connection is ever sent a typing
\* event of its own user.
C17_TypingToOtherOnly ==
    /\ [](\A d \in Conns : \A i \in 1..Len(Stream(d)) :
            IsTypingFrame(Stream(d)[i]) => Stream(d)[i].user_id # connUser[d])
    /\ [][\A c \in Conns, r \in convs :
            (/\ connState[c] = "open"
             /\ connUser[c] \in {r.user1, r.user2}
             /\ (Typing(c, r.id) \/ StopTyping(c, r.id)))
                => \E event \in {UserTypingEvent(r.id, connUserId[c]),
                                 UserStopTypingEvent(r.id, connUserId[c])} :
                     LET other == CHOOSE u \in {r.user1, r.user2} : u # connUser[c]
                     IN /\ published' = published \cup
                              {PublishRec(c, UserGroupName(other), event)}
                        /\ \A d \in Conns :
                              queue'[d] = IF d \in JoinedTo(other)
                                          THEN Append(queue[d], event) ELSE queue[d]
                        /\ UNCHANGED <<frames, groups, storeVars, dbVars>>]_vars
\* users 1 and 2 have one connection each; a typing event of user 1 waits on the
\* channel of user 2's connection and on no channel of user 1
C17_Witness ==
    \E d \in Conns :
        /\ connUser[d] = 2
        /\ Len(queue[d]) = 1
        /\ IsTypingFrame(HandlerFrame(queue[d][1]))
        /\ queue[d][1].user_id = 1
        /\ Cardinality(JoinedTo(1)) = 1
        /\ \A c \in JoinedTo(1) : Stream(c) = <<>>

\* C18: when the metadata write of a send fails after the payload write, the payload
\* can be read by its id and is in the index of its conversation, no metadata row is
\* written, no conversation is touched, nothing is published, and the sender is sent
\* an error frame; a payload without metadata row stays as it is (it is not removed
\* and gets no row later) and no new_message is ever published for it.
Orphans == {m \in DOMAIN payloads : \A row \in metadata : row.message_id # m}
PublishedIds ==
    {rec.event.message.id : rec \in {q \in published : q.event.type = "new_message"}}
C18_OrphanPayloadStays ==
    /\ [](Orphans \cap PublishedIds = {})
    /\ [][\A m \in Orphans : m \in Orphans']_vars
    /\ [][\A c \in Conns, r \in convs, content \in Contents, m \in MsgIds :
            SendMessageMetadataFails(c, r.id, content, m) =>
                /\ m \in DOMAIN payloads'
                /\ get_message(payloads', m).content = content
                /\ get_message(payloads', m).conversation_id = r.id
                /\ m \in {e[1] : e \in index'[r.id]}
                /\ UNCHANGED <<metadata, convs, published, queue>>
                /\ \E f \in {frames'[c][Len(frames'[c])]} :
                      IsError(f) /\ frames'[c] = Append(frames[c], f)]_vars
\* a send lost its metadata write: its payload is in the store and in the index
\* without a row, while the next send of the same connection went through
C18_Witness ==
    \E c \in Conns, m \in Orphans, n \in MsgIds \ Orphans :
        /\ Len(frames[c]) > 0
        /\ frames[c][1] = ErrorFrame("django.db.utils.DatabaseError")
        /\ sent[c] = <<n>>
        /\ n \in PublishedIds
        /\ \E k \in ConvIds : {e[1] : e \in index[k]} = {m, n}

\* C19: when a Redis command of the payload write fails, no metadata row is written,
\* no conversation is touched, nothing is published or put on a channel, and the
\* sender is sent an error frame.
C19_StoreFailureAborts ==
    [][\A c \in Conns, r \in convs, content \in Contents, m \in MsgIds,
         stage \in StoreStages :
          SendMessageStoreFails(c, r.id, content, m, stage) =>
              /\ UNCHANGED <<metadata, convs, published, queue>>
              /\ \E f \in {frames'[c][Len(frames'[c])]} :
                    IsError(f) /\ frames'[c] = Append(frames[c], f)
              /\ \A d \in Conns \ {c} : frames'[d] = frames[d]]_vars
\* a send failed at SETEX and left nothing, another failed after SETEX and left a
\* payload that is in no index; no row was written and nothing was published
C19_Witness ==
    /\ Cardinality(usedIds) = 2
    /\ Cardinality(DOMAIN payloads) = 1
    /\ \A k \in ConvIds : index[k] = {}
    /\ metadata = {}
    /\ PublishedIds = {}
    /\ \E c \in Conns : Len(frames[c]) = 2 /\ \A i \in 1..2 : IsError(frames[c][i])

\* C20: while 30 days have not passed since store_message returned an id and the
\* message has not been deleted, get_message of the id finds the payload, with the
\* content, conversation, sender and receiver store_message was called with; and a
\* get_message call made in that time has returned it.
Kept(m) == puts[m].at > 0 /\ ~ puts[m].deleted /\ now < puts[m].at + message_ttl
SameAsPut(data, m) ==
    /\ data.id = m
    /\ data.content = puts[m].content
    /\ data.conversation_id = puts[m].conversation_id
    /\ data.sender_id = puts[m].sender_id
    /\ data.receiver_id = puts[m].receiver_id
C20_RoundTrip ==
    \A m \in MsgIds : Kept(m) =>
        /\ m \in DOMAIN payloads
        /\ SameAsPut(get_message(payloads, m), m)
        /\ (sres.op = "get_message" /\ sres.id = m) =>
              (Len(sres.result) = 1 /\ SameAsPut(sres.result[1], m))
\* "hello" was stored almost 30 days ago and get_message has just returned it; the
\* other message, stored with another content, has been deleted
C20_Witness ==
    \E m \in MsgIds, n \in MsgIds :
        /\ Kept(m)
        /\ puts[m].content = "hello"
        /\ now >= puts[m].at + message_ttl - MaxTick
        /\ sres.op = "get_message" /\ sres.id = m
        /\ sres.result = <<get_message(payloads, m)>>
        /\ puts[n].deleted /\ puts[n].content = "hi"

\* C21: once 30 days have passed since store_message wrote a payload, the key is
\* gone: get_message of the id finds nothing and a get_message call returns None,
\* the result it returns for an id that was never stored.
Expired(m) == puts[m].at > 0 /\ now >= puts[m].at + message_ttl
C21_ExpiredNotFound ==
    /\ [](\A m \in MsgIds : Expired(m) =>
            /\ m \notin DOMAIN payloads
            /\ get_message(payloads, m) = get_message(<<>>, m))
    /\ [][\A m \in MsgIds : (Expired(m) /\ GetMessage(m)) =>
            /\ sres'.result = <<>>
            /\ \A n \in MsgIds \ usedIds :
                  sres'.result = IF n \in DOMAIN payloads
                                 THEN <<get_message(payloads, n)>> ELSE <<>>]_vars
\* a payload that was not deleted is 30 days old, its id is still in the index of its
\* conversation, get_message has just returned None for it, and one id was never
\* stored
C21_Witness ==
    \E m \in MsgIds :
        /\ Expired(m) /\ ~ puts[m].deleted
        /\ now = puts[m].at + message_ttl
        /\ m \in {e[1] : e \in index[puts[m].conversation_id]}
        /\ sres = [op |-> "get_message", id |-> m, result |-> <<>>]
        /\ MsgIds \ usedIds # {}

\* C22: get_chat_messages skips the ids of the index whose payload is gone and does
\* not count them against limit: when at least limit payloads that are in the store lie
\* at or after the offset in the index, the page it returns holds limit payloads.
LiveFrom(conversation_id, offset) ==
    LET all == RevSorted(index[conversation_id])
    IN Cardinality({i \in (offset + 1)..Len(all) : all[i] \in DOMAIN payloads})
C22_LimitCountsLiveOnly ==
    [][\A conversation_id \in ListConvs, limit \in 1..MaxLimit, offset \in 0..MaxOffset :
         (/\ GetChatMessages(conversation_id, limit, offset)
          /\ LiveFrom(conversation_id, offset) >= limit)
            => Len(sres'.result) = limit]_vars

\* C23: once delete_message has returned True for a stored payload, the key and the
\* index entry are gone and stay gone: get_message of the id finds nothing, no page of
\* get_chat_messages holds the id, and calls made later return accordingly.
IdsOf(page) == {page[i].id : i \in 1..Len(page)}
C23_DeleteRemoves ==
    /\ [](\A m \in MsgIds : puts[m].deleted =>
            /\ m \notin DOMAIN payloads
            /\ \A conversation_id \in ConvIds :
                  m \notin {e[1] : e \in index[conversation_id]}
            /\ \A conversation_id \in ListConvs, limit \in 1..MaxLimit,
                  offset \in 0..MaxOffset :
                  m \notin IdsOf(get_chat_messages(payloads, index, conversation_id,
                                                   limit, offset)))
    /\ [][\A m \in MsgIds : puts[m].deleted =>
            /\ puts'[m].deleted
            /\ GetMessage(m) => sres'.result = <<>>
            /\ \A conversation_id \in ListConvs, limit \in 1..MaxLimit,
                  offset \in 0..MaxOffset :
                  GetChatMessages(conversation_id, limit, offset)
                      => m \notin IdsOf(sres'.result)]_vars
\* of two messages of one conversation the newer one has been deleted, and a
\* get_chat_messages call made afterwards has returned the older one alone
C23_Witness ==
    \E m \in MsgIds, n \in MsgIds :
        /\ puts[m].deleted /\ puts[n].at > 0 /\ puts[n].at < puts[m].at
        /\ puts[n].conversation_id = puts[m].conversation_id
        /\ sres.op = "get_chat_messages" /\ sres.id = puts[m].conversation_id
        /\ sres.limit = 2 /\ sres.offset = 0
        /\ IdsOf(sres.result) = {n}

\* C24: whatever the order of the steps of get_messages_view and delete_message_view
\* on a row of table messages, is_read and is_deleted only go from False to True:
\* the row stays, and a flag that is True is True after every step.
C24_FlagsNeverReset ==
    [][\A r \in metadata : \E q \in metadata' :
          /\ q.message_id = r.message_id
          /\ r.is_read => q.is_read
          /\ r.is_deleted => q.is_deleted]_vars

\* C25: the channel layer keeps nothing for a connection that is in no group: a step
\* taken while a connection is in no group, the one in which it joins included, adds
\* no event to what the connection is sent, and a message published while the
\* connection did not get it is never sent to it afterwards.
InNoGroup(d) == \A g \in GroupNames : d \notin groups[g]
C25_NoReplayAfterJoin ==
    /\ [][\A d \in Conns : InNoGroup(d) => Events(d)' = Events(d)]_vars
    /\ [][\A d \in Conns, m \in MsgIds :
            (m \in usedIds /\ Count(d, m) = 0) => Count(d, m)' = 0]_vars
\* a message for user 2 was published and sent to another connection; a connection
\* of user 2 that joined the group of user 2 afterwards is open and has not got it
C25_Witness ==
    \E d \in Conns, c \in Conns, m \in usedIds :
        /\ connState[d] = "open" /\ connUser[d] = 2
        /\ d \in JoinedTo(2)
        /\ \E rec \in published :
              /\ rec.event.type = "new_message" /\ rec.event.message.id = m
              /\ rec.group = UserGroupName(2)
        /\ Count(d, m) = 0
        /\ Count(c, m) = 1

\* C26: the disconnect of a connection takes back nothing a send has written: the
\* step that closes an open connection leaves payloads, indexes, metadata rows and
\* conversations as they are, those of a send that stopped after its payload write
\* included, and every message a closed connection has stored still has its payload
\* and its metadata row.
C26_DisconnectKeepsWrites ==
    /\ [][\A c \in Conns : (connState[c] = "open" /\ connState'[c] = "closed") =>
            UNCHANGED <<payloads, expireAt, index, metadata, convs>>]_vars
    /\ [](\A c \in Conns : connState[c] = "closed" =>
            \A i \in 1..Len(sent[c]) :
                /\ sent[c][i] \in DOMAIN payloads
                /\ \E r \in metadata : r.message_id = sent[c][i])
\* a connection that stored a message, and then had a send stop after the payload
\* write, has disconnected: the message has its payload and row, and the payload
\* without row is in the store
C26_Witness ==
    \E c \in Conns :
        /\ connState[c] = "closed"
        /\ Len(sent[c]) = 1
        /\ sent[c][1] \in DOMAIN payloads
        /\ \E r \in metadata : r.message_id = sent[c][1]
        /\ Orphans # {}
        /\ \A d \in Conns \ {c} : connState[d] = "connecting"

\* C27: when the publish to the group of the receiver fails after the publish to the
\* group of the sender, the send stands: the payload, the index entry and the metadata
\* row are written, the event has gone to the group of the sender alone and the sender
\* is sent an error frame; afterwards the payload and the row of a published message
\* stay, nothing more is published for it, and no connection is sent it twice.
RecsOf(m) ==
    {rec \in published : rec.event.type = "new_message" /\ rec.event.message.id = m}
C27_PublishedSendStands ==
    /\ [][\A c \in Conns, r \in convs, content \in Contents, m \in MsgIds :
            SendMessagePublishFails(c, r.id, content, m) =>
                /\ m \in DOMAIN payloads'
                /\ get_message(payloads', m).content = content
                /\ m \in {e[1] : e \in index'[r.id]}
                /\ \E row \in metadata' \ metadata : row.message_id = m
                /\ {rec.group : rec \in RecsOf(m)'} = {UserGroupName(connUserId[c])}
                /\ \E text \in {"redis.exceptions.ConnectionError"} :
                      frames'[c] = Append(frames[c], ErrorFrame(text))]_vars
    /\ [][\A m \in PublishedIds :
            /\ RecsOf(m)' = RecsOf(m)
            /\ m \in DOMAIN payloads'
            /\ \E row \in metadata' : row.message_id = m]_vars
    /\ [](\A d \in Conns, m \in MsgIds : Count(d, m) <= 1)
\* a message went to the group of its sender alone: it has its payload and its row,
\* a connection of the sender has been sent it once, and a later send of the same
\* connection has been published to both groups
C27_Witness ==
    \E c \in Conns, m \in MsgIds, n \in MsgIds :
        /\ sent[c] = <<m, n>>
        /\ Cardinality(RecsOf(m)) = 1
        /\ Cardinality(RecsOf(n)) = 2
        /\ m \in DOMAIN payloads
        /\ \E row \in metadata : row.message_id = m
        /\ Count(c, m) = 1

\* C28: every conversation has updated_at >= created_at, no step lowers updated_at or
\* changes created_at, and every message with a metadata row has bumped its
\* conversation: updated_at is at least the created_at of the row and the timestamp
\* of the payload, from the step of the send on.
ConvRow(conversation_id) == CHOOSE r \in convs : r.id = conversation_id
C28_UpdatedAtBumped ==
    /\ [](\A r \in convs : r.updated_at >= r.created_at)
    /\ [](\A row \in metadata : ConvRow(row.conversation).updated_at >= row.created_at)
    /\ [][\A r \in convs : \E q \in convs' :
            /\ q.id = r.id
            /\ q.created_at = r.created_at
            /\ q.updated_at >= r.updated_at]_vars
    /\ [][\A m \in MsgIds : (m \notin usedIds /\ m \in usedIds') =>
            \A row \in metadata' : row.message_id = m =>
                /\ ConvRow(row.conversation)'.updated_at > ConvRow(row.conversation).updated_at
                /\ ConvRow(row.conversation)'.updated_at >= row.created_at
                /\ ConvRow(row.conversation)'.updated_at >=
                       get_message(payloads', m).timestamp]_vars
\* two messages were sent in conversation 1: its updated_at is later than the
\* created_at of both rows, and conversation 2 is as it was created
C28_Witness ==
    /\ Cardinality({row \in metadata : row.conversation = 1}) = 2
    /\ \A row \in metadata : ConvRow(1).updated_at > row.created_at
    /\ ConvRow(2).updated_at = ConvRow(2).created_at

\* C29: when a new_message event of message m is published, store_message and
\* create_message_metadata have run for m: the payload is in the store, m is in the
\* index of the conversation, and table messages has the row of m, with the user of
\* the publishing connection as sender and the other participant as receiver. A send
\* that stopped before one of these writes has published nothing.
Written(rec) ==
    LET m == rec.event.message.id
        conversation_id == rec.event.conversation_id
    IN /\ m \in DOMAIN payloads
       /\ m \in {e[1] : e \in index[conversation_id]}
       /\ \E row \in metadata :
             /\ row.message_id = m
             /\ row.conversation = conversation_id
             /\ row.sender = connUser[rec.by]
             /\ row.receiver = get_other_user(ConvRow(conversation_id), connUser[rec.by])
             /\ row.receiver # row.sender
NewMessageRecs == {rec \in published : rec.event.type = "new_message"}
C29_WrittenBeforePublished ==
    /\ [](\A rec \in NewMessageRecs : Written(rec))
    /\ [][\A rec \in NewMessageRecs' \ NewMessageRecs : Written(rec)']_vars
    /\ [](\A m \in usedIds :
            (m \notin DOMAIN payloads \/ \A row \in metadata : row.message_id # m)
                => m \notin PublishedIds)
\* one send stopped at its metadata write, its payload is in the store and nothing
\* was published for it; another was published to both groups with everything written
C29_Witness ==
    /\ \E m \in Orphans : m \notin PublishedIds
    /\ \E rec \in NewMessageRecs :
          /\ Written(rec)
          /\ Cardinality(RecsOf(rec.event.message.id)) = 2

\* C30: the message of every published new_message event, and of every new_message
\* frame sent to a connection, agrees with the payload stored under its id on
\* conversation_id, sender_id, receiver_id and content; its sender_id is the user the
\* publishing connection authenticated as, its receiver_id is the other participant
\* of the conversation, and the two differ.
AgreesWithPayload(view) ==
    /\ view.id \in DOMAIN payloads
    /\ LET data == get_message(payloads, view.id)
       IN /\ view.conversation_id = data.conversation_id
          /\ view.sender_id = data.sender_id
          /\ view.receiver_id = data.receiver_id
          /\ view.content = data.content
C30_ViewAgreesWithPayload ==
    /\ \A rec \in NewMessageRecs :
          LET view == rec.event.message
          IN /\ AgreesWithPayload(view)
             /\ view.conversation_id = rec.event.conversation_id
             /\ view.sender_id = connUser[rec.by]
             /\ view.sender_id = connUserId[rec.by]
             /\ view.receiver_id =
                    get_other_user(ConvRow(view.conversation_id), view.sender_id)
             /\ view.sender_id # view.receiver_id
    /\ \A d \in Conns : \A i \in 1..Len(Stream(d)) :
          LET f == Stream(d)[i]
          IN (~ IsError(f) /\ f.type = "new_message") =>
                /\ AgreesWithPayload(f.message)
                /\ f.message.sender_id # f.message.receiver_id
                /\ connUser[d] \in {f.message.sender_id, f.message.receiver_id}
\* user 2, the second participant of conversation 1, has sent "hi" there; a
\* connection of user 1 has been sent the frame, whose message names 2 as sender and
\* 1 as receiver and carries a later timestamp than the payload
C30_Witness ==
    \E d \in Conns : \E i \in 1..Len(frames[d]) :
        LET f == frames[d][i]
        IN /\ connUser[d] = 1
           /\ ~ IsError(f) /\ f.type = "new_message"
           /\ f.conversation_id = 1
           /\ f.message.sender_id = 2 /\ f.message.receiver_id = 1
           /\ f.message.content = "hi"
           /\ f.message.timestamp > get_message(payloads, f.message.id).timestamp

\* ---------------------------------------------------------------------------------
\* C31 (as stated): user_offline for a user is published only when the user's last
\* open connection disconnects: a step in which a connection sends user_offline
\* leaves no other connection joined to the user's group
C31_OfflineOnlyForLastConnection ==
    [][\A c \in Conns :
          offlineSent'[c] > offlineSent[c] => JoinedTo(connUserId[c])' = {}]_vars

\* C31 (amended): user_offline for a user is published at every disconnect of an
\* accepted connection of that user, whether or not another connection of the user
\* is still joined to the user's group, and by nothing but a disconnect: the handler
\* looks at no other connection
C31_OfflineAtEveryDisconnect ==
    [][\A c \in Conns :
          /\ (connState[c] = "open" /\ connState'[c] = "closed")
                => /\ offlineSent'[c] = offlineSent[c] + 1
                   /\ OfflineRec(c) \in published'
                   /\ JoinedTo(connUserId[c])' = JoinedTo(connUserId[c]) \ {c}
          /\ offlineSent'[c] # offlineSent[c]
                => /\ connState[c] \in {"open", "closed"}
                   /\ connState'[c] = "closed"
          /\ \A rec \in published' \ published :
                rec.event.type = "user_offline"
                  => /\ connState'[rec.by] = "closed"
                     /\ rec.event.user_id = connUserId[rec.by]]_vars

\* one connection of a user has disconnected and announced user_offline while another
\* connection of the same user is open and joined to the user's group
C31_Witness ==
    \E c \in Conns : \E d \in Conns \ {c} :
        /\ connState[c] = "closed" /\ connState[d] = "open"
        /\ connUserId[c] = connUserId[d]
        /\ offlineSent[c] = 1
        /\ OfflineRec(c) \in published
        /\ d \in JoinedTo(connUserId[d])

\* ---------------------------------------------------------------------------------
\* C32: user_offline for a user is published only by a connection that earlier
\* published user_online for that user; the disconnect of a connection that connect
\* rejected publishes nothing and changes no group
OnlineRec(c) == PublishRec(c, OnlineUsers, UserOnlineEvent(connUserId[c]))

C32_OfflineOnlyAfterOnline ==
    /\ [](\A rec \in published :
            rec.event.type = "user_offline"
              => /\ rec = OfflineRec(rec.by)
                 /\ OnlineRec(rec.by) \in published)
    /\ [][\A c \in Conns :
            /\ offlineSent'[c] > offlineSent[c] => OnlineRec(c) \in published
            /\ (connState[c] = "rejected" /\ connState'[c] # "rejected")
                  => /\ published' = published
                     /\ groups' = groups
                     /\ queue' = queue
                     /\ offlineSent' = offlineSent]_vars

\* the disconnect of a rejected connection has run, and an accepted connection has
\* announced user_online and later user_offline
C32_Witness ==
    \E c \in Conns : \E d \in Conns \ {c} :
        /\ connState[c] = "failed"
        /\ offlineSent[c] = 0
        /\ \A rec \in published : rec.by # c
        /\ connState[d] = "closed"
        /\ OnlineRec(d) \in published /\ OfflineRec(d) \in published

IndexedPayloads(conversation_id) ==
    {m \in DOMAIN payloads : \E e \in index[conversation_id] : e[1] = m}

C34_ReadOnlyIfListed ==
    [][\A row \in metadata' :
          (row.is_read /\ [row EXCEPT !.is_read = FALSE] \in metadata)
            => \E call \in reading \ reading' :
                  /\ call.user = row.receiver
                  /\ call.conversation_id = row.conversation
                  /\ row.message_id \in IdsOf(call.messages)]_vars

\* ---------------------------------------------------------------------------------
\* C35: every message accepted through a send path, the send_message frame or the
\* HTTP send view, is published as new_message to the user groups of both
\* participants: no metadata row is without its new_message events
C35_EveryRowPublished ==
    \A row \in metadata :
        \A user \in {row.sender, row.receiver} :
            \E rec \in RecsOf(row.message_id) : rec.group = UserGroupName(user)

\* ---------------------------------------------------------------------------------
\* C36: the delete endpoint lets only the sender of a message delete it. A call of
\* another user is answered access denied and leaves the row, the payload and the
\* index as they are; when a call of the sender completes, is_deleted of the row is
\* true and the payload is not retrievable
C36_OnlySenderDeletes ==
    /\ [][\A user \in Users, row \in metadata :
            DeleteViewLoad(user, row.message_id) =>
                IF row.sender # user
                THEN /\ sres' = ViewResponse("delete_message_view", row.message_id,
                                             403, <<>>)
                     /\ metadata' = metadata
                     /\ payloads' = payloads
                     /\ index' = index
                     /\ loaded' = loaded
                ELSE /\ row \in loaded'
                     /\ sres' = sres]_vars
    /\ [][\A message \in loaded :
            DeleteViewSave(message) =>
                /\ \E row \in metadata' :
                      /\ row.message_id = message.message_id
                      /\ row.is_deleted
                /\ get_message(payloads', message.message_id) = NoneVal
                /\ \A k \in ConvIds : \A e \in index'[k] : e[1] # message.message_id
                /\ sres' = ViewResponse("delete_message_view", message.message_id,
                                        200, <<>>)]_vars
    /\ [](\A message \in loaded :
            \E row \in metadata :
                row.message_id = message.message_id /\ row.sender = message.sender)
    /\ [][\A row \in metadata' :
            (row.is_deleted /\ [row EXCEPT !.is_deleted = FALSE] \in metadata)
              => \E message \in loaded \ loaded' :
                    message.message_id = row.message_id]_vars

\* the sender has deleted one message: its row is flagged and its payload is gone;
\* then another user's call to delete a second message was answered 403, and that
\* message has its row unflagged, its payload and its index entry
C36_Witness ==
    \E gone \in metadata : \E kept \in metadata \ {gone} :
        /\ gone.is_deleted /\ gone.message_id \notin DOMAIN payloads
        /\ ~ kept.is_deleted /\ kept.message_id \in DOMAIN payloads
        /\ \E e \in index[kept.conversation] : e[1] = kept.message_id
        /\ sres = ViewResponse("delete_message_view", kept.message_id, 403, <<>>)

\* ---------------------------------------------------------------------------------
\* C37: delete_message of an id that was never stored, or whose payload has expired
\* or was deleted, returns False and leaves the payloads and every index as they
\* are: the index entry an expired payload left behind stays
Dangling(m) == \E k \in ConvIds : \E e \in index[k] : e[1] = m /\ m \notin DOMAIN payloads

C37_DeleteOfMissingChangesNothing ==
    [][\A m \in MsgIds :
          (m \notin DOMAIN payloads /\ DeleteMessage(m))
            => /\ sres' = [op |-> "delete_message", id |-> m, result |-> <<FALSE>>]
               /\ payloads' = payloads
               /\ expireAt' = expireAt
               /\ index' = index
               /\ Dangling(m) => Dangling(m)']_vars

\* delete_message has returned False for a message whose payload has expired, and
\* the id is still in the index of its conversation; another id was never stored
C37_Witness ==
    \E m \in MsgIds :
        /\ Expired(m) /\ ~ puts[m].deleted
        /\ sres = [op |-> "delete_message", id |-> m, result |-> <<FALSE>>]
        /\ \E e \in index[puts[m].conversation_id] : e[1] = m
        /\ Dangling(m)

\* ---------------------------------------------------------------------------------
\* C38: store_message writes the payload and its index entry together: in every
\* state, also after a failure of the store between the two writes, every payload
\* get_message finds is in the index of its own conversation
C38_PayloadIndexed ==
    \A m \in DOMAIN payloads :
        \E e \in index[get_message(payloads, m).conversation_id] : e[1] = m

====
